---- MODULE Spec2Model ----
(***************************************************************************)
(* Discharge-flow task engine: task generation from TASK_RULES, status     *)
(* derivation (calculateTaskStatus), the guarded completion of the task    *)
(* state manager, its collection helpers and the in-memory TaskStore, and  *)
(* the unguarded completion paths of taskGenerator.ts and patientService.  *)
(*                                                                         *)
(* Dates are time values in milliseconds counted from 2026-01-01T00:00     *)
(* local time; an Invalid Date has the time value NaN.  An optional field  *)
(* is <<>> when undefined and <<v>> when it holds v.                       *)
(***************************************************************************)
EXTENDS Integers, Sequences, FiniteSets, TLC

VARIABLES
    task,      \* the Task object handed to a single-task function
    tasks,     \* the Task[] array handed to a collection function
    store,     \* TaskStore.tasks
    lsTasks,   \* localStorage['discharge_flow_tasks'] of the client service
    lsPatients,     \* localStorage['discharge_flow_patients']
    lsInitialized,  \* localStorage['discharge_flow_initialized'] is set
    patient,   \* the Patient handed to the generator
    patients,  \* the Patient[] handed to the batch generator
    callers,   \* per concurrent caller: its position, snapshot and result
    clock,     \* wall clock read by new Date() / passed as now
    ret        \* the last call: its name, arguments and return value

vars == <<task, tasks, store, lsTasks, lsPatients, lsInitialized, patient, patients, callers, clock, ret>>

----------------------------------------------------------------------------
(* Bounds *)

MaxTasks == 2      \* longest Task[] handed to a collection function
MaxStore == 2      \* longest task list a TaskStore / localStorage starts with
NumIds == 2        \* distinct task ids present in collections
NumRnd == 2        \* distinct values Math.random() yields for an id suffix
MaxBatch == 2      \* longest Patient[] handed to generateTasksForPatients

----------------------------------------------------------------------------
(* Values *)

None == <<>>
Some(v) == <<v>>

\* The time value of an Invalid Date, and the number NaN: outside the range
\* of every time value and duration of the model.
NaN == -2147483647

MinuteMs == 60000
HourMs == 3600000
DayMs == 24 * HourMs

Statuses == {"upcoming", "pending", "overdue", "completed"}

\* 2026-01-14T10:00, the discharge time used throughout the test suites.
Discharge == 13 * DayMs + 10 * HourMs

\* `task_${Date.now()}_${Math.random().toString(36).substr(2, 9)}`:
\* the millisecond of the call and the random suffix drawn.
generateTaskId(now, rnd) == <<now, rnd>>

Ids == {generateTaskId(Discharge, r) : r \in 1..NumIds}
MissingId == generateTaskId(Discharge, 0)
Users == {"Nurse A", "Nurse B"}
NoteTexts == {"note 1", "note 2"}

\* JS relational comparison of two Dates: false when either is invalid.
DateLt(a, b) == a # NaN /\ b # NaN /\ a < b
DateGt(a, b) == a # NaN /\ b # NaN /\ a > b

\* new Date(d.getTime() + ms)
DatePlus(d, ms) == IF d = NaN THEN NaN ELSE d + ms

----------------------------------------------------------------------------
(* shared/types: TASK_RULES *)

SNF == "Skilled nursing facility"

TASK_RULES == <<
    [type |-> "contact_patient", windowStartHours |-> 0, windowEndHours |-> 24],
    [type |-> "medication_reconciliation", windowStartHours |-> 0, windowEndHours |-> 48],
    [type |-> "followup_scheduling", windowStartHours |-> 0, windowEndHours |-> 48],
    [type |-> "facility_handoff", windowStartHours |-> 0, windowEndHours |-> 24],
    [type |-> "checkin_call", windowStartHours |-> 48, windowEndHours |-> 72] >>

condition_highOnly(rule, p) ==
    CASE rule.type = "facility_handoff" -> p.dischargeDisposition = SNF
      [] rule.type = "checkin_call" -> p.readmissionRiskScore = "High"
      [] OTHER -> TRUE

condition(rule, p) ==
    CASE rule.type = "facility_handoff" -> p.dischargeDisposition = SNF
      [] rule.type = "checkin_call" -> p.readmissionRiskScore \in {"High", "Very High"}
      [] OTHER -> TRUE

----------------------------------------------------------------------------
(* taskGenerator.ts: generation *)

\* new Date(`${dateStr}T${timeStr}:00`) for a date <<year, month, day>> of
\* January 2026 and a time <<hours, minutes>>, as local wall-clock time;
\* a field out of range gives an Invalid Date.
parseLocalDateTime(dateStr, timeStr) ==
    IF \/ Len(dateStr) # 3 \/ Len(timeStr) # 2
    THEN NaN
    ELSE IF \/ dateStr[2] \notin 1..12 \/ dateStr[3] \notin 1..31
            \/ timeStr[1] \notin 0..23 \/ timeStr[2] \notin 0..59
    THEN NaN
    ELSE (dateStr[3] - 1) * DayMs + timeStr[1] * HourMs + timeStr[2] * MinuteMs

getDischargeDateTime(p) ==
    LET dateStr == p.dischargeDate
        timeStr == IF p.dischargeTime = None THEN <<0, 0>> ELSE p.dischargeTime
    IN  parseLocalDateTime(dateStr, timeStr)

RECURSIVE generateFromRule(_, _, _, _, _)
generateFromRule(p, now, rnds, r, acc) ==
    IF r > Len(TASK_RULES) THEN acc
    ELSE IF ~condition(TASK_RULES[r], p)
    THEN generateFromRule(p, now, rnds, r + 1, acc)
    ELSE LET rule == TASK_RULES[r]
             dischargeDateTime == getDischargeDateTime(p)
             dueStart == DatePlus(dischargeDateTime, rule.windowStartHours * HourMs)
             dueEnd == DatePlus(dischargeDateTime, rule.windowEndHours * HourMs)
         IN  generateFromRule(p, now, rnds, r + 1,
                 Append(acc, [id |-> generateTaskId(now, rnds[Len(acc) + 1]),
                              patientId |-> p.patientId,
                              type |-> rule.type,
                              status |-> "pending",
                              dueStart |-> dueStart,
                              dueEnd |-> dueEnd,
                              completedAt |-> None,
                              completedBy |-> None,
                              notes |-> None]))

\* rnds[k] is the random suffix drawn for the k-th task pushed.
generateTasksForPatient(p, now, rnds) == generateFromRule(p, now, rnds, 1, <<>>)

\* allTasks.push(...generateTasksForPatient(patient)) for each patient in
\* turn; the suffixes are drawn in the order the tasks are pushed.
RECURSIVE generateTasksForPatients(_, _, _)
generateTasksForPatients(ps, now, rnds) ==
    IF ps = <<>> THEN <<>>
    ELSE LET first == generateTasksForPatient(Head(ps), now, rnds)
         IN  first \o generateTasksForPatients(Tail(ps), now,
                          SubSeq(rnds, Len(first) + 1, Len(rnds)))

----------------------------------------------------------------------------
(* taskGenerator.ts: status derivation *)

calculateTaskStatus_exclusiveEnd(t, now) ==
    IF t.status = "completed" THEN "completed"
    ELSE IF DateLt(now, t.dueStart) THEN "upcoming"
    ELSE IF ~DateLt(now, t.dueEnd) THEN "overdue"
    ELSE "pending"

calculateTaskStatus(t, now) ==
    IF t.status = "completed" THEN "completed"
    ELSE IF DateLt(now, t.dueStart) THEN "upcoming"
    ELSE IF DateGt(now, t.dueEnd) THEN "overdue"
    ELSE "pending"

----------------------------------------------------------------------------
(* taskStateManager: transition table *)

VALID_TRANSITIONS ==
    [upcoming |-> {"pending", "overdue"},
     pending |-> {"completed", "overdue"},
     overdue |-> {"completed"},
     completed |-> {}]

\* VALID_TRANSITIONS[fromStatus]?.includes(toStatus) ?? false
isValidTransition(fromStatus, toStatus) ==
    IF fromStatus \in DOMAIN VALID_TRANSITIONS
    THEN toStatus \in VALID_TRANSITIONS[fromStatus]
    ELSE FALSE

canCompleteTask_pendingOnly(t, now) ==
    calculateTaskStatus(t, now) = "pending"

canCompleteTask(t, now) ==
    LET currentStatus == calculateTaskStatus(t, now) IN
    currentStatus = "pending" \/ currentStatus = "overdue"

----------------------------------------------------------------------------
(* taskStateManager: guarded completion and notes *)

completeTask_noCompletedCheck(t, completedBy, now) ==
    LET currentStatus == calculateTaskStatus(t, now) IN
    IF currentStatus = "upcoming"
    THEN [success |-> FALSE, task |-> None,
          error |-> Some("Cannot complete a task before its window opens")]
    ELSE [success |-> TRUE,
          task |-> Some([t EXCEPT !.status = "completed",
                                  !.completedAt = Some(now),
                                  !.completedBy = completedBy]),
          error |-> None]

completeTask_noGuard(t, completedBy, now) ==
    [success |-> TRUE,
     task |-> Some([t EXCEPT !.status = "completed",
                             !.completedAt = Some(now),
                             !.completedBy = completedBy]),
     error |-> None]

completeTask_noUpcomingCheck(t, completedBy, now) ==
    LET currentStatus == calculateTaskStatus(t, now) IN
    IF currentStatus = "completed"
    THEN [success |-> FALSE, task |-> None,
          error |-> Some("Task is already completed")]
    ELSE [success |-> TRUE,
          task |-> Some([t EXCEPT !.status = "completed",
                                  !.completedAt = Some(now),
                                  !.completedBy = completedBy]),
          error |-> None]

completeTask_stampsDueEnd(t, completedBy, now) ==
    LET currentStatus == calculateTaskStatus(t, now) IN
    IF currentStatus = "completed"
    THEN [success |-> FALSE, task |-> None,
          error |-> Some("Task is already completed")]
    ELSE IF currentStatus = "upcoming"
    THEN [success |-> FALSE, task |-> None,
          error |-> Some("Cannot complete a task before its window opens")]
    ELSE [success |-> TRUE,
          task |-> Some([t EXCEPT !.status = "completed",
                                  !.completedAt = Some(t.dueEnd),
                                  !.completedBy = completedBy]),
          error |-> None]

completeTask(t, completedBy, now) ==
    LET currentStatus == calculateTaskStatus(t, now) IN
    IF currentStatus = "completed"
    THEN [success |-> FALSE, task |-> None,
          error |-> Some("Task is already completed")]
    ELSE IF currentStatus = "upcoming"
    THEN [success |-> FALSE, task |-> None,
          error |-> Some("Cannot complete a task before its window opens")]
    ELSE [success |-> TRUE,
          task |-> Some([t EXCEPT !.status = "completed",
                                  !.completedAt = Some(now),
                                  !.completedBy = completedBy]),
          error |-> None]

addTaskNotes_keepsExisting(t, notes) ==
    IF t.notes = None THEN [t EXCEPT !.notes = Some(notes)] ELSE t

addTaskNotes(t, notes) == [t EXCEPT !.notes = Some(notes)]

----------------------------------------------------------------------------
(* taskStateManager: collection helpers *)

RECURSIVE findIndexFrom(_, _, _)
findIndexFrom(ts, taskId, i) ==
    IF i > Len(ts) THEN 0
    ELSE IF ts[i].id = taskId THEN i
    ELSE findIndexFrom(ts, taskId, i + 1)

\* tasks.findIndex((t) => t.id === taskId), 1-based; 0 stands for -1.
findIndex(ts, taskId) == findIndexFrom(ts, taskId, 1)

\* tasks.find((t) => t.id === taskId)
findTaskById(ts, taskId) ==
    IF findIndex(ts, taskId) = 0 THEN None ELSE Some(ts[findIndex(ts, taskId)])

NotFoundError(taskId) == "Task with ID '" \o ToString(taskId) \o "' not found"

completeTaskInCollection_replacesAll(ts, taskId, completedBy, now) ==
    LET taskIndex == findIndex(ts, taskId) IN
    IF taskIndex = 0
    THEN [tasks |-> ts,
          result |-> [success |-> FALSE, task |-> None,
                      error |-> Some(NotFoundError(taskId))]]
    ELSE LET result == completeTask(ts[taskIndex], completedBy, now) IN
         IF ~result.success \/ result.task = None
         THEN [tasks |-> ts, result |-> result]
         ELSE [tasks |-> [i \in DOMAIN ts |->
                             IF ts[i].id = taskId THEN result.task[1] ELSE ts[i]],
               result |-> result]

completeTaskInCollection_unguarded(ts, taskId, completedBy, now) ==
    LET taskIndex == findIndex(ts, taskId) IN
    IF taskIndex = 0
    THEN [tasks |-> ts,
          result |-> [success |-> FALSE, task |-> None,
                      error |-> Some(NotFoundError(taskId))]]
    ELSE LET result == completeTask_noGuard(ts[taskIndex], completedBy, now) IN
         [tasks |-> [ts EXCEPT ![taskIndex] = result.task[1]], result |-> result]

completeTaskInCollection_dropsNotes(ts, taskId, completedBy, now) ==
    LET taskIndex == findIndex(ts, taskId) IN
    IF taskIndex = 0
    THEN [tasks |-> ts,
          result |-> [success |-> FALSE, task |-> None,
                      error |-> Some(NotFoundError(taskId))]]
    ELSE LET result == completeTask(ts[taskIndex], completedBy, now) IN
         IF ~result.success \/ result.task = None
         THEN [tasks |-> ts, result |-> result]
         ELSE [tasks |-> [i \in DOMAIN ts |->
                             IF i = taskIndex THEN result.task[1]
                             ELSE [ts[i] EXCEPT !.notes = None]],
               result |-> result]

completeTaskInCollection(ts, taskId, completedBy, now) ==
    LET taskIndex == findIndex(ts, taskId) IN
    IF taskIndex = 0
    THEN [tasks |-> ts,
          result |-> [success |-> FALSE, task |-> None,
                      error |-> Some(NotFoundError(taskId))]]
    ELSE LET result == completeTask(ts[taskIndex], completedBy, now) IN
         IF ~result.success \/ result.task = None
         THEN [tasks |-> ts, result |-> result]
         ELSE [tasks |-> [ts EXCEPT ![taskIndex] = result.task[1]],
               result |-> result]

addNotesToTaskInCollection_upsert(ts, taskId, notes) ==
    LET taskIndex == findIndex(ts, taskId) IN
    IF taskIndex = 0
    THEN [tasks |-> Append(ts, [id |-> taskId, patientId |-> "", type |-> "",
                                status |-> "pending", dueStart |-> NaN,
                                dueEnd |-> NaN, completedAt |-> None,
                                completedBy |-> None, notes |-> Some(notes)]),
          success |-> TRUE, error |-> None]
    ELSE [tasks |-> [ts EXCEPT ![taskIndex] = addTaskNotes(ts[taskIndex], notes)],
          success |-> TRUE, error |-> None]

addNotesToTaskInCollection(ts, taskId, notes) ==
    LET taskIndex == findIndex(ts, taskId) IN
    IF taskIndex = 0
    THEN [tasks |-> ts, success |-> FALSE,
          error |-> Some(NotFoundError(taskId))]
    ELSE [tasks |-> [ts EXCEPT ![taskIndex] = addTaskNotes(ts[taskIndex], notes)],
          success |-> TRUE, error |-> None]

----------------------------------------------------------------------------
(* Inputs of the single-task functions *)

Window(i) == [type |-> TASK_RULES[i].type,
              dueStart |-> Discharge + TASK_RULES[i].windowStartHours * HourMs,
              dueEnd |-> Discharge + TASK_RULES[i].windowEndHours * HourMs]

\* The windows of contact_patient and checkin_call, and the window the
\* generator computes from an unparseable discharge date.
Windows == {Window(1), Window(5),
            [type |-> "contact_patient", dueStart |-> NaN, dueEnd |-> NaN]}

\* Each bound of each window, one millisecond either side, and the middle.
Times == UNION {{w.dueStart - 1, w.dueStart, w.dueStart + 1,
                 w.dueStart + 2 * HourMs,
                 w.dueEnd - 1, w.dueEnd, w.dueEnd + 1} :
                w \in {Window(1), Window(5)}}

MkTask(id, w, status, at, by, notes) ==
    [id |-> id, patientId |-> "MRN0001", type |-> w.type, status |-> status,
     dueStart |-> w.dueStart, dueEnd |-> w.dueEnd,
     completedAt |-> at, completedBy |-> by, notes |-> notes]

TaskInputs ==
    {MkTask(generateTaskId(Discharge, 1), w, s, None, None, n) :
        w \in Windows, s \in Statuses, n \in {None, Some("note 1")}}
    \cup
    {MkTask(generateTaskId(Discharge, 1), w, "completed", Some(w.dueStart + 2 * HourMs), by, n) :
        w \in {Window(1), Window(5)}, by \in {None, Some("Nurse A")},
        n \in {None, Some("note 1")}}

DefaultTask == MkTask(generateTaskId(Discharge, 1), Window(1), "pending", None, None, None)

DefaultPatient == [patientId |-> "MRN0001", dischargeDate |-> <<2026, 1, 14>>,
                   dischargeTime |-> <<10, 0>>,
                   dischargeDisposition |-> "Home",
                   readmissionRiskScore |-> "Low"]

NoCall == [op |-> "none"]

----------------------------------------------------------------------------
(* Single-task functions applied to an input task *)

InitTask ==
    /\ task \in TaskInputs
    /\ tasks = <<>>
    /\ store = <<>>
    /\ lsTasks = <<>>
    /\ lsPatients = <<>>
    /\ lsInitialized = FALSE
    /\ patients = <<>>
    /\ callers = <<>>
    /\ patient = DefaultPatient
    /\ clock = Discharge
    /\ ret = NoCall

CalculateTaskStatus(now) ==
    /\ ret' = [op |-> "calculateTaskStatus", input |-> task, now |-> now,
               status |-> calculateTaskStatus(task, now)]
    /\ UNCHANGED <<task, tasks, store, lsTasks, lsPatients, lsInitialized, patient, patients, callers, clock>>

CompleteTask(completedBy, now) ==
    /\ ret' = [op |-> "completeTask", input |-> task, now |-> now,
               completedBy |-> completedBy,
               result |-> completeTask(task, completedBy, now)]
    /\ UNCHANGED <<task, tasks, store, lsTasks, lsPatients, lsInitialized, patient, patients, callers, clock>>

AddTaskNotes(notes) ==
    /\ ret' = [op |-> "addTaskNotes", input |-> task, notes |-> notes,
               task |-> addTaskNotes(task, notes)]
    /\ UNCHANGED <<task, tasks, store, lsTasks, lsPatients, lsInitialized, patient, patients, callers, clock>>

NextTask ==
    \/ \E now \in Times : CalculateTaskStatus(now)
    \/ \E by \in {None} \cup {Some(u) : u \in Users}, now \in Times :
          CompleteTask(by, now)
    \/ \E n \in NoteTexts : AddTaskNotes(n)

SpecTask == InitTask /\ [][NextTask]_vars

----------------------------------------------------------------------------
(* taskGenerator.ts: time remaining *)

\* dueEnd.getTime() - now.getTime(); NaN when either is an Invalid Date.
getTimeRemaining(t, now) ==
    IF t.dueEnd = NaN \/ now = NaN THEN NaN ELSE t.dueEnd - now

\* remaining < 0, Math.abs, Math.floor and % on a number that may be NaN.
getTimeRemainingFormatted(t, now) ==
    LET remaining == getTimeRemaining(t, now)
        isOverdue == remaining # NaN /\ remaining < 0
        absoluteRemaining == IF remaining = NaN THEN NaN
                             ELSE IF remaining < 0 THEN -remaining ELSE remaining
        totalMinutes == IF absoluteRemaining = NaN THEN NaN
                        ELSE absoluteRemaining \div (60 * 1000)
        hours == IF totalMinutes = NaN THEN NaN ELSE totalMinutes \div 60
        minutes == IF totalMinutes = NaN THEN NaN ELSE totalMinutes % 60
    IN  [hours |-> hours, minutes |-> minutes, isOverdue |-> isOverdue,
         totalMinutes |-> totalMinutes]

GetTimeRemaining(now) ==
    /\ ret' = [op |-> "getTimeRemaining", input |-> task, now |-> now,
               out |-> getTimeRemaining(task, now)]
    /\ UNCHANGED <<task, tasks, store, lsTasks, lsPatients, lsInitialized, patient, patients, callers, clock>>

GetTimeRemainingFormatted(now) ==
    /\ ret' = [op |-> "getTimeRemainingFormatted", input |-> task, now |-> now,
               out |-> getTimeRemainingFormatted(task, now)]
    /\ UNCHANGED <<task, tasks, store, lsTasks, lsPatients, lsInitialized, patient, patients, callers, clock>>

\* The times at which the status is derived, and 1 h 1 min 59.999 s either side of the
\* first deadline.
RemainingTimes ==
    Times \cup {Window(1).dueEnd - (HourMs + 2 * MinuteMs - 1),
                Window(1).dueEnd + (HourMs + 2 * MinuteMs - 1)}

NextRemaining ==
    \/ \E now \in RemainingTimes : GetTimeRemaining(now)
    \/ \E now \in RemainingTimes : GetTimeRemainingFormatted(now)

SpecRemaining == InitTask /\ [][NextRemaining]_vars

----------------------------------------------------------------------------
(* Collection helpers applied to an input array *)

Bys == {None} \cup {Some(u) : u \in Users}

CollWindow == Window(1)

CollTasks ==
    {MkTask(id, CollWindow, s, None, None, None) :
        id \in Ids, s \in Statuses \ {"completed"}}
    \cup
    {MkTask(id, CollWindow, "completed", Some(CollWindow.dueStart + 2 * HourMs),
            Some("Nurse A"), Some("note 1")) : id \in Ids}

Collections == UNION {[1..n -> CollTasks] : n \in 0..MaxTasks}

CollTimes == {CollWindow.dueStart - 1, CollWindow.dueStart, CollWindow.dueEnd + 1}

InitColl ==
    /\ tasks \in Collections
    /\ task = DefaultTask
    /\ store = <<>>
    /\ lsTasks = <<>>
    /\ lsPatients = <<>>
    /\ lsInitialized = FALSE
    /\ patients = <<>>
    /\ callers = <<>>
    /\ patient = DefaultPatient
    /\ clock = Discharge
    /\ ret = NoCall

CompleteTaskInCollection(taskId, completedBy, now) ==
    /\ ret' = [op |-> "completeTaskInCollection", input |-> tasks,
               taskId |-> taskId, completedBy |-> completedBy, now |-> now,
               out |-> completeTaskInCollection(tasks, taskId, completedBy, now)]
    /\ UNCHANGED <<task, tasks, store, lsTasks, lsPatients, lsInitialized, patient, patients, callers, clock>>

AddNotesToTaskInCollection(taskId, notes) ==
    /\ ret' = [op |-> "addNotesToTaskInCollection", input |-> tasks,
               taskId |-> taskId, notes |-> notes,
               out |-> addNotesToTaskInCollection(tasks, taskId, notes)]
    /\ UNCHANGED <<task, tasks, store, lsTasks, lsPatients, lsInitialized, patient, patients, callers, clock>>

NextColl ==
    \/ \E id \in Ids \cup {MissingId}, by \in Bys, now \in CollTimes :
          CompleteTaskInCollection(id, by, now)
    \/ \E id \in Ids \cup {MissingId}, n \in NoteTexts :
          AddNotesToTaskInCollection(id, n)

SpecColl == InitColl /\ [][NextColl]_vars

----------------------------------------------------------------------------
(* taskGenerator.ts: refresh and status filters over an input array *)

isTaskOverdue_atDeadline(t, now) ==
    calculateTaskStatus(t, now) = "overdue" \/ (t.status # "completed" /\ now = t.dueEnd)

\* calculateTaskStatus(task, now) === 'overdue'
isTaskOverdue(t, now) == calculateTaskStatus(t, now) = "overdue"

updateTaskStatuses_keepsStored(ts, now) ==
    [i \in DOMAIN ts |->
        [ts[i] EXCEPT !.status = IF ts[i].status = "pending"
                                 THEN calculateTaskStatus(ts[i], now)
                                 ELSE ts[i].status]]

\* tasks.map((task) => ({...task, status: calculateTaskStatus(task, now)}))
updateTaskStatuses(ts, now) ==
    [i \in DOMAIN ts |-> [ts[i] EXCEPT !.status = calculateTaskStatus(ts[i], now)]]

getOverdueTasks(ts, now) == SelectSeq(ts, LAMBDA t : isTaskOverdue(t, now))

getPendingTasks_stored(ts, now) == SelectSeq(ts, LAMBDA t : t.status = "pending")

getPendingTasks(ts, now) ==
    SelectSeq(ts, LAMBDA t : calculateTaskStatus(t, now) = "pending")

getUpcomingTasks(ts, now) ==
    SelectSeq(ts, LAMBDA t : calculateTaskStatus(t, now) = "upcoming")

getCompletedTasks(ts) == SelectSeq(ts, LAMBDA t : t.status = "completed")

UpdateTaskStatuses(now) ==
    /\ ret' = [op |-> "updateTaskStatuses", input |-> tasks, now |-> now,
               out |-> updateTaskStatuses(tasks, now)]
    /\ UNCHANGED <<task, tasks, store, lsTasks, lsPatients, lsInitialized, patient, patients, callers, clock>>

GetOverdueTasks(now) ==
    /\ ret' = [op |-> "getOverdueTasks", input |-> tasks, now |-> now,
               out |-> getOverdueTasks(tasks, now)]
    /\ UNCHANGED <<task, tasks, store, lsTasks, lsPatients, lsInitialized, patient, patients, callers, clock>>

GetPendingTasks(now) ==
    /\ ret' = [op |-> "getPendingTasks", input |-> tasks, now |-> now,
               out |-> getPendingTasks(tasks, now)]
    /\ UNCHANGED <<task, tasks, store, lsTasks, lsPatients, lsInitialized, patient, patients, callers, clock>>

GetUpcomingTasks(now) ==
    /\ ret' = [op |-> "getUpcomingTasks", input |-> tasks, now |-> now,
               out |-> getUpcomingTasks(tasks, now)]
    /\ UNCHANGED <<task, tasks, store, lsTasks, lsPatients, lsInitialized, patient, patients, callers, clock>>

\* getCompletedTasks takes no now; clock is the time of the call.
GetCompletedTasks ==
    /\ ret' = [op |-> "getCompletedTasks", input |-> tasks, now |-> clock,
               out |-> getCompletedTasks(tasks)]
    /\ UNCHANGED <<task, tasks, store, lsTasks, lsPatients, lsInitialized, patient, patients, callers, clock>>

\* One millisecond before the window, its two bounds, and one after it.
QueryTimes == {CollWindow.dueStart - 1, CollWindow.dueStart,
               CollWindow.dueEnd, CollWindow.dueEnd + 1}

NextQuery ==
    \/ \E now \in QueryTimes : UpdateTaskStatuses(now)
    \/ \E now \in QueryTimes : GetOverdueTasks(now)
    \/ \E now \in QueryTimes : GetPendingTasks(now)
    \/ \E now \in QueryTimes : GetUpcomingTasks(now)
    \/ GetCompletedTasks

SpecQuery == InitColl /\ [][NextQuery]_vars

----------------------------------------------------------------------------
(* taskGenerator.ts: completion queries *)

\* a >= b and a <= b on Dates: false when either is an Invalid Date.
DateGe(a, b) == a # NaN /\ b # NaN /\ a >= b
DateLe(a, b) == a # NaN /\ b # NaN /\ a <= b

getTasksCompletedInRange_exclusiveEnd(ts, startDate, endDate) ==
    SelectSeq(ts, LAMBDA t :
        IF t.status # "completed" \/ t.completedAt = None THEN FALSE
        ELSE /\ DateGe(t.completedAt[1], startDate)
             /\ DateLt(t.completedAt[1], endDate))

getTasksCompletedInRange(ts, startDate, endDate) ==
    SelectSeq(ts, LAMBDA t :
        IF t.status # "completed" \/ t.completedAt = None THEN FALSE
        ELSE /\ DateGe(t.completedAt[1], startDate)
             /\ DateLe(t.completedAt[1], endDate))

\* new Date(year, month, date) and new Date(year, month, date, 23, 59, 59, 999)
\* of now, in local time.
getTasksCompletedToday(ts, now) ==
    LET startOfDay == now - (now % DayMs)
        endOfDay == startOfDay + 23 * HourMs + 59 * MinuteMs + 59 * 1000 + 999
    IN  getTasksCompletedInRange(ts, startOfDay, endOfDay)

\* Midnight at the start of the discharge day.
Midnight == Discharge - (Discharge % DayMs)

\* The last millisecond of the day before, the first and the last of the
\* discharge day, and the first of the day after.
CompletionTimes == {Midnight - 1, Midnight, Midnight + DayMs - 1, Midnight + DayMs}

RangeTasks ==
    {MkTask(id, CollWindow, "pending", None, None, None) : id \in Ids}
    \cup
    {MkTask(id, CollWindow, "completed", at, Some("Nurse A"), None) :
        id \in Ids, at \in {None} \cup {Some(c) : c \in CompletionTimes}}

InitRange ==
    /\ tasks \in UNION {[1..n -> RangeTasks] : n \in 0..MaxTasks}
    /\ task = DefaultTask
    /\ store = <<>>
    /\ lsTasks = <<>>
    /\ lsPatients = <<>>
    /\ lsInitialized = FALSE
    /\ patients = <<>>
    /\ callers = <<>>
    /\ patient = DefaultPatient
    /\ clock = Discharge
    /\ ret = NoCall

GetTasksCompletedInRange(startDate, endDate) ==
    /\ ret' = [op |-> "getTasksCompletedInRange", input |-> tasks,
               startDate |-> startDate, endDate |-> endDate,
               out |-> getTasksCompletedInRange(tasks, startDate, endDate)]
    /\ UNCHANGED <<task, tasks, store, lsTasks, lsPatients, lsInitialized, patient, patients, callers, clock>>

GetTasksCompletedToday(now) ==
    /\ ret' = [op |-> "getTasksCompletedToday", input |-> tasks,
               startDate |-> now, endDate |-> now,
               out |-> getTasksCompletedToday(tasks, now)]
    /\ UNCHANGED <<task, tasks, store, lsTasks, lsPatients, lsInitialized, patient, patients, callers, clock>>

NextRange ==
    \/ \E startDate \in CompletionTimes, endDate \in CompletionTimes :
          GetTasksCompletedInRange(startDate, endDate)
    \/ \E now \in {Midnight, Discharge, Midnight + DayMs - 1} :
          GetTasksCompletedToday(now)

SpecRange == InitRange /\ [][NextRange]_vars

----------------------------------------------------------------------------
(* TaskStore *)

\* Tasks as the generator leaves them: stored status pending, nothing else set.
StoreTasks == {MkTask(id, CollWindow, "pending", None, None, None) : id \in Ids}

\* Before the window opens, inside it, and after it has closed.
StoreTimes == {CollWindow.dueStart - 1, CollWindow.dueStart + 2 * HourMs,
               CollWindow.dueEnd + 1}

StoreBys == {None, Some("Nurse A")}

\* constructor(initialTasks): this.tasks = [...initialTasks]
InitStore ==
    /\ store \in UNION {[1..n -> StoreTasks] : n \in 1..MaxStore}
    /\ clock = CollWindow.dueStart - 1
    /\ task = DefaultTask
    /\ tasks = <<>>
    /\ lsTasks = <<>>
    /\ lsPatients = <<>>
    /\ lsInitialized = FALSE
    /\ patients = <<>>
    /\ callers = <<>>
    /\ patient = DefaultPatient
    /\ ret = NoCall

\* tasks.map((task) => ({...task, status: calculateTaskStatus(task, now)}))
withStatus(ts, now) ==
    [i \in DOMAIN ts |-> [ts[i] EXCEPT !.status = calculateTaskStatus(ts[i], now)]]

StoreGetAllTasks ==
    /\ ret' = [op |-> "TaskStore.getAllTasks", now |-> clock,
               tasks |-> withStatus(store, clock)]
    /\ UNCHANGED <<task, tasks, store, lsTasks, lsPatients, lsInitialized, patient, patients, callers, clock>>

StoreGetTaskById(taskId) ==
    /\ ret' = [op |-> "TaskStore.getTaskById", taskId |-> taskId,
               task |-> findTaskById(store, taskId)]
    /\ UNCHANGED <<task, tasks, store, lsTasks, lsPatients, lsInitialized, patient, patients, callers, clock>>

StoreGetTasksByPatientId(patientId) ==
    /\ ret' = [op |-> "TaskStore.getTasksByPatientId", now |-> clock,
               patientId |-> patientId,
               tasks |-> withStatus(
                   SelectSeq(store, LAMBDA t : t.patientId = patientId), clock)]
    /\ UNCHANGED <<task, tasks, store, lsTasks, lsPatients, lsInitialized, patient, patients, callers, clock>>

StoreGetTasksByStatus(status) ==
    /\ ret' = [op |-> "TaskStore.getTasksByStatus", now |-> clock,
               status |-> status,
               tasks |-> SelectSeq(withStatus(store, clock),
                                   LAMBDA t : t.status = status)]
    /\ UNCHANGED <<task, tasks, store, lsTasks, lsPatients, lsInitialized, patient, patients, callers, clock>>

StoreCompleteTask(taskId, completedBy) ==
    LET r == completeTaskInCollection(store, taskId, completedBy, clock) IN
    /\ store' = IF r.result.success THEN r.tasks ELSE store
    /\ ret' = [op |-> "TaskStore.completeTask", before |-> store,
               taskId |-> taskId, completedBy |-> completedBy, now |-> clock,
               returned |-> r.tasks, result |-> r.result]
    /\ UNCHANGED <<task, tasks, lsTasks, lsPatients, lsInitialized, patient, patients, callers, clock>>

StoreAddTaskNotes(taskId, notes) ==
    LET r == addNotesToTaskInCollection(store, taskId, notes) IN
    /\ store' = IF r.success THEN r.tasks ELSE store
    /\ ret' = [op |-> "TaskStore.addTaskNotes", before |-> store,
               taskId |-> taskId, notes |-> notes,
               returned |-> r.tasks,
               result |-> [success |-> r.success, error |-> r.error]]
    /\ UNCHANGED <<task, tasks, lsTasks, lsPatients, lsInitialized, patient, patients, callers, clock>>

\* Time passes between two calls.
Tick ==
    /\ \E t \in StoreTimes : t > clock /\ clock' = t
    /\ UNCHANGED <<task, tasks, store, lsTasks, lsPatients, lsInitialized, patient, patients, callers, ret>>

NextStore ==
    \/ Tick
    \/ StoreGetAllTasks
    \/ \E id \in Ids \cup {MissingId} : StoreGetTaskById(id)
    \/ \E pid \in {"MRN0001", "MRN0002"} : StoreGetTasksByPatientId(pid)
    \/ \E st \in Statuses : StoreGetTasksByStatus(st)
    \/ \E id \in Ids \cup {MissingId}, by \in StoreBys : StoreCompleteTask(id, by)
    \/ \E id \in Ids \cup {MissingId}, n \in {"note 1"} : StoreAddTaskNotes(id, n)

SpecStore == InitStore /\ [][NextStore]_vars

----------------------------------------------------------------------------
(* The generator applied to a patient *)

Dispositions == {"Home", "Home with home health", SNF}
RiskLevels == {"Low", "Medium", "High", "Very High"}

Patients ==
    [patientId : {"MRN0001"},
     dischargeDate : {<<2026, 1, 14>>, <<2026, 13, 45>>},
     dischargeTime : {None, <<10, 0>>, <<14, 30>>, <<25, 0>>},
     dischargeDisposition : Dispositions,
     readmissionRiskScore : RiskLevels]

InitGen ==
    /\ patient \in Patients
    /\ task = DefaultTask
    /\ tasks = <<>>
    /\ store = <<>>
    /\ lsTasks = <<>>
    /\ lsPatients = <<>>
    /\ lsInitialized = FALSE
    /\ patients = <<>>
    /\ callers = <<>>
    /\ clock = Discharge
    /\ ret = NoCall

GenerateTasksForPatient(rnds) ==
    /\ ret' = [op |-> "generateTasksForPatient", input |-> patient,
               error |-> None,
               tasks |-> generateTasksForPatient(patient, clock, rnds)]
    /\ UNCHANGED <<task, tasks, store, lsTasks, lsPatients, lsInitialized, patient, patients, callers, clock>>

NextGen ==
    \E rnds \in [1..Len(TASK_RULES) -> 1..NumRnd] : GenerateTasksForPatient(rnds)

SpecGen == InitGen /\ [][NextGen]_vars

----------------------------------------------------------------------------
(* The generator applied to a batch of patients *)

\* A patient whose discharge datetime parses and a row whose date does not.
BatchPatients ==
    {DefaultPatient,
     [DefaultPatient EXCEPT !.patientId = "MRN0003",
                            !.dischargeDate = <<2026, 13, 45>>]}

Batches == UNION {[1..n -> BatchPatients] : n \in 0..MaxBatch}

\* How many times generateTaskId is called for the batch.
randomDraws(ps) ==
    Len(generateTasksForPatients(ps, 0,
            [k \in 1..(Len(ps) * Len(TASK_RULES)) |-> 0]))

InitBatch ==
    /\ patients \in Batches
    /\ callers = <<>>
    /\ patient = DefaultPatient
    /\ task = DefaultTask
    /\ tasks = <<>>
    /\ store = <<>>
    /\ lsTasks = <<>>
    /\ lsPatients = <<>>
    /\ lsInitialized = FALSE
    /\ clock = Discharge
    /\ ret = NoCall

GenerateTasksForPatients(rnds) ==
    /\ ret' = [op |-> "generateTasksForPatients", input |-> patients,
               error |-> None,
               tasks |-> generateTasksForPatients(patients, clock, rnds)]
    /\ UNCHANGED <<task, tasks, store, lsTasks, lsPatients, lsInitialized, patient, patients, callers, clock>>

NextBatch ==
    \E rnds \in [1..randomDraws(patients) -> 1..NumRnd] :
        GenerateTasksForPatients(rnds)

SpecBatch == InitBatch /\ [][NextBatch]_vars

----------------------------------------------------------------------------
(* Completion entry points outside the state manager *)

\* taskGenerator.ts completeTask: no status check.
taskGenerator_completeTask(t, completedBy, completedAt) ==
    [t EXCEPT !.status = "completed",
              !.completedAt = Some(completedAt),
              !.completedBy = completedBy]

completeTaskInList(ts, taskId, completedBy, completedAt) ==
    LET taskIndex == findIndex(ts, taskId) IN
    IF taskIndex = 0
    THEN [tasks |-> ts, completedTask |-> None]
    ELSE LET completedTask ==
                 taskGenerator_completeTask(ts[taskIndex], completedBy, completedAt)
         IN  [tasks |-> [ts EXCEPT ![taskIndex] = completedTask],
              completedTask |-> Some(completedTask)]

\* The same task list held by a caller of taskGenerator.ts and persisted
\* under localStorage['discharge_flow_tasks'] by the client service.
InitEntry ==
    /\ tasks \in Collections
    /\ lsTasks = tasks
    /\ lsPatients = <<>>
    /\ lsInitialized = TRUE
    /\ patients = <<>>
    /\ callers = <<>>
    /\ clock \in CollTimes
    /\ task = DefaultTask
    /\ store = <<>>
    /\ patient = DefaultPatient
    /\ ret = NoCall

CompleteTaskInList(taskId, completedBy) ==
    /\ ret' = [op |-> "completeTaskInList", input |-> tasks,
               taskId |-> taskId, completedBy |-> completedBy, now |-> clock,
               out |-> completeTaskInList(tasks, taskId, completedBy, clock)]
    /\ UNCHANGED <<task, tasks, store, lsTasks, lsPatients, lsInitialized, patient, patients, callers, clock>>

\* patientService.completeTask: read the stored list, overwrite the entry
\* found by id, write the list back, return the entry.
ClientCompleteTask(taskId, completedBy) ==
    LET taskIndex == findIndex(lsTasks, taskId)
        updated == [lsTasks[taskIndex] EXCEPT !.status = "completed",
                                              !.completedAt = Some(clock),
                                              !.completedBy = completedBy]
    IN  IF taskIndex = 0
        THEN /\ ret' = [op |-> "patientService.completeTask", before |-> lsTasks,
                        taskId |-> taskId, completedBy |-> completedBy,
                        now |-> clock, task |-> None]
             /\ UNCHANGED <<task, tasks, store, lsTasks, lsPatients, lsInitialized, patient, patients, callers, clock>>
        ELSE /\ lsTasks' = [lsTasks EXCEPT ![taskIndex] = updated]
             /\ ret' = [op |-> "patientService.completeTask", before |-> lsTasks,
                        taskId |-> taskId, completedBy |-> completedBy,
                        now |-> clock, task |-> Some(updated)]
             /\ UNCHANGED <<task, tasks, store, lsPatients, lsInitialized, patient, patients, callers, clock>>

EntryTick ==
    /\ \E t \in CollTimes : t > clock /\ clock' = t
    /\ UNCHANGED <<task, tasks, store, lsTasks, lsPatients, lsInitialized, patient, patients, callers, ret>>

NextEntry ==
    \/ EntryTick
    \/ \E id \in Ids \cup {MissingId}, by \in StoreBys : CompleteTaskInList(id, by)
    \/ \E id \in Ids \cup {MissingId}, by \in StoreBys : ClientCompleteTask(id, by)

SpecEntry == InitEntry /\ [][NextEntry]_vars

----------------------------------------------------------------------------
(* Read accessors: TaskStore, patientService and the dashboard storage *)

\* One of the seed patients, MRN8472; the seed file itself is not part of
\* the sources, so the other fields are those of the test patient.
SEED_PATIENTS == << [DefaultPatient EXCEPT !.patientId = "MRN8472"] >>

initializeDatabase_always(ls, now, rnds) ==
    [patients |-> SEED_PATIENTS,
     tasks |-> generateTasksForPatients(SEED_PATIENTS, now, rnds),
     initialized |-> TRUE]

\* initializeDatabase: seed patients and their generated tasks unless the
\* initialized flag is already stored.
initializeDatabase(ls, now, rnds) ==
    IF ls.initialized THEN ls
    ELSE [patients |-> SEED_PATIENTS,
          tasks |-> generateTasksForPatients(SEED_PATIENTS, now, rnds),
          initialized |-> TRUE]

localStorage == [patients |-> lsPatients, tasks |-> lsTasks,
                 initialized |-> lsInitialized]

\* An empty localStorage and a TaskStore built from generated tasks.
InitRead ==
    /\ store \in UNION {[1..n -> StoreTasks] : n \in 1..MaxStore}
    /\ lsTasks = <<>>
    /\ lsPatients = <<>>
    /\ lsInitialized = FALSE
    /\ clock = CollWindow.dueStart - 1
    /\ task = DefaultTask
    /\ tasks = <<>>
    /\ patients = <<>>
    /\ callers = <<>>
    /\ patient = DefaultPatient
    /\ ret = NoCall

InitializeDatabase(rnds) ==
    LET ls == initializeDatabase(localStorage, clock, rnds) IN
    /\ lsPatients' = ls.patients
    /\ lsTasks' = ls.tasks
    /\ lsInitialized' = ls.initialized
    /\ ret' = [op |-> "patientService.initializeDatabase", before |-> localStorage]
    /\ UNCHANGED <<task, tasks, store, patient, patients, callers, clock>>

\* patientService.getAllTasks: initializeDatabase(), then every stored task
\* with its dates rebuilt and its status derived at new Date().
ClientGetAllTasks(rnds) ==
    LET ls == initializeDatabase(localStorage, clock, rnds) IN
    /\ lsPatients' = ls.patients
    /\ lsTasks' = ls.tasks
    /\ lsInitialized' = ls.initialized
    /\ ret' = [op |-> "patientService.getAllTasks", before |-> localStorage,
               now |-> clock,
               tasks |-> [i \in DOMAIN ls.tasks |->
                            [ls.tasks[i] EXCEPT
                                !.status = calculateTaskStatus(ls.tasks[i], clock)]]]
    /\ UNCHANGED <<task, tasks, store, patient, patients, callers, clock>>

\* Dashboard getTasks: the stored tasks with their dates rebuilt.
DashboardGetTasks ==
    /\ ret' = [op |-> "Dashboard.getTasks", before |-> localStorage,
               now |-> clock, tasks |-> lsTasks]
    /\ UNCHANGED <<task, tasks, store, lsTasks, lsPatients, lsInitialized, patient, patients, callers, clock>>

NextRead ==
    \/ Tick
    \/ StoreGetAllTasks
    \/ \E id \in Ids \cup {MissingId} : StoreGetTaskById(id)
    \/ \E pid \in {"MRN0001", "MRN0002"} : StoreGetTasksByPatientId(pid)
    \/ \E st \in Statuses : StoreGetTasksByStatus(st)
    \/ \E rnds \in [1..randomDraws(SEED_PATIENTS) -> 1..NumRnd] :
          InitializeDatabase(rnds)
    \/ \E rnds \in [1..randomDraws(SEED_PATIENTS) -> 1..NumRnd] :
          ClientGetAllTasks(rnds)
    \/ DashboardGetTasks

SpecRead == InitRead /\ [][NextRead]_vars

----------------------------------------------------------------------------
(* taskStateManager.ts: the storage boundary *)

\* Date.prototype.toISOString of a valid date of January 2026: the fields
\* <<year, month, day, hours, minutes, seconds, milliseconds>> the string is
\* made of.
toISOString(d) ==
    <<2026, 1, (d \div DayMs) + 1, (d % DayMs) \div HourMs,
      (d % HourMs) \div MinuteMs, (d % MinuteMs) \div 1000, d % 1000>>

\* new Date(isoString)
newDate(iso) ==
    IF \/ Len(iso) # 7 \/ iso[2] \notin 1..12 \/ iso[3] \notin 1..31
       \/ iso[4] \notin 0..23 \/ iso[5] \notin 0..59 \/ iso[6] \notin 0..59
       \/ iso[7] \notin 0..999
    THEN NaN
    ELSE (iso[3] - 1) * DayMs + iso[4] * HourMs + iso[5] * MinuteMs
         + iso[6] * 1000 + iso[7]

\* toISOString throws a RangeError on an Invalid Date.
throwsRangeError(t) ==
    \/ t.dueStart = NaN
    \/ t.dueEnd = NaN
    \/ (t.completedAt # None /\ t.completedAt[1] = NaN)

\* The text is modelled by the array it denotes; JSON.stringify leaves out
\* the properties whose value is undefined.
serializeTasksForStorage(ts) ==
    IF \E i \in DOMAIN ts : throwsRangeError(ts[i])
    THEN [threw |-> TRUE, json |-> <<>>]
    ELSE [threw |-> FALSE,
          json |-> [i \in DOMAIN ts |->
                      [ts[i] EXCEPT
                          !.dueStart = toISOString(ts[i].dueStart),
                          !.dueEnd = toISOString(ts[i].dueEnd),
                          !.completedAt =
                              IF ts[i].completedAt = None THEN None
                              ELSE Some(toISOString(ts[i].completedAt[1]))]]]

deserializeTasksFromStorage(json) ==
    [i \in DOMAIN json |->
        [json[i] EXCEPT
            !.dueStart = newDate(json[i].dueStart),
            !.dueEnd = newDate(json[i].dueEnd),
            !.completedAt =
                IF json[i].completedAt # None
                THEN Some(newDate(json[i].completedAt[1]))
                ELSE None]]

\* Tasks as generated for a well-formed patient and for one whose discharge
\* date does not parse, and a completed task with every optional field set.
SerialTasks ==
    {MkTask(id, w, "pending", None, None, None) :
        id \in Ids,
        w \in {CollWindow, [type |-> "contact_patient", dueStart |-> NaN, dueEnd |-> NaN]}}
    \cup
    {MkTask(id, CollWindow, "completed", Some(CollWindow.dueStart + 2 * HourMs + 1),
            Some("Nurse A"), Some("note 1")) : id \in Ids}

\* An array of tasks and a TaskStore constructed from it.
InitSerial ==
    /\ tasks \in UNION {[1..n -> SerialTasks] : n \in 0..MaxTasks}
    /\ store = tasks
    /\ lsTasks = <<>>
    /\ lsPatients = <<>>
    /\ lsInitialized = FALSE
    /\ patients = <<>>
    /\ callers = <<>>
    /\ patient = DefaultPatient
    /\ task = DefaultTask
    /\ clock = Discharge
    /\ ret = NoCall

SerializeTasksForStorage ==
    /\ ret' = [op |-> "serializeTasksForStorage", input |-> tasks,
               result |-> serializeTasksForStorage(tasks), out |-> <<>>]
    /\ UNCHANGED <<task, tasks, store, lsTasks, lsPatients, lsInitialized, patient, patients, callers, clock>>

\* Applied to the text the last serialization returned.
DeserializeTasksFromStorage ==
    /\ ret.op = "serializeTasksForStorage"
    /\ ~ret.result.threw
    /\ ret' = [op |-> "deserializeTasksFromStorage", input |-> ret.input,
               result |-> ret.result,
               out |-> deserializeTasksFromStorage(ret.result.json)]
    /\ UNCHANGED <<task, tasks, store, lsTasks, lsPatients, lsInitialized, patient, patients, callers, clock>>

ExportToJson ==
    /\ ret' = [op |-> "TaskStore.exportToJson", input |-> store,
               result |-> serializeTasksForStorage(store), out |-> <<>>]
    /\ UNCHANGED <<task, tasks, store, lsTasks, lsPatients, lsInitialized, patient, patients, callers, clock>>

\* The importing store's tasks are replaced by the deserialized text.
ImportFromJson ==
    /\ ret.op = "TaskStore.exportToJson"
    /\ ~ret.result.threw
    /\ store' = deserializeTasksFromStorage(ret.result.json)
    /\ ret' = [op |-> "TaskStore.importFromJson", input |-> ret.input,
               result |-> ret.result,
               out |-> deserializeTasksFromStorage(ret.result.json)]
    /\ UNCHANGED <<task, tasks, lsTasks, lsPatients, lsInitialized, patient, patients, callers, clock>>

NextSerial ==
    \/ SerializeTasksForStorage
    \/ DeserializeTasksFromStorage
    \/ ExportToJson
    \/ ImportFromJson

SpecSerial == InitSerial /\ [][NextSerial]_vars

----------------------------------------------------------------------------
(* Two callers completing over a shared stored collection *)

Callers == {1, 2}

CallerName(c) == IF c = 1 THEN Some("Nurse A") ELSE Some("Nurse B")

\* patientService.completeTask on the parsed list: overwrite the entry found
\* by id, whatever its status.
patientService_completeTask(ts, taskId, completedBy, now) ==
    LET taskIndex == findIndex(ts, taskId) IN
    IF taskIndex = 0
    THEN [tasks |-> ts,
          result |-> [success |-> FALSE, task |-> None, error |-> None]]
    ELSE LET updated == [ts[taskIndex] EXCEPT !.status = "completed",
                                              !.completedAt = Some(now),
                                              !.completedBy = completedBy]
         IN  [tasks |-> [ts EXCEPT ![taskIndex] = updated],
              result |-> [success |-> TRUE, task |-> Some(updated), error |-> None]]

writeBack_compareAndSwap(stored, snapshot, written) ==
    IF stored = snapshot THEN written ELSE stored

\* this.tasks = tasks / localStorage.setItem(TASKS, JSON.stringify(tasks)):
\* the stored collection is replaced whole, whatever it holds by now.
writeBack(stored, snapshot, written) == written

Idle == [pc |-> "idle"]

InitRace ==
    /\ store \in UNION {[1..n -> StoreTasks] : n \in 1..MaxStore}
    /\ lsTasks = store
    /\ callers = [c \in Callers |-> Idle]
    /\ clock \in StoreTimes
    /\ lsPatients = <<>>
    /\ lsInitialized = TRUE
    /\ patients = <<>>
    /\ patient = DefaultPatient
    /\ task = DefaultTask
    /\ tasks = <<>>
    /\ ret = NoCall

\* The caller takes its snapshot of the stored collection.
RaceRead(c, kind) ==
    /\ callers[c].pc = "idle"
    /\ callers' = [callers EXCEPT ![c] =
                      [pc |-> "read", kind |-> kind,
                       snapshot |-> IF kind = "collection" THEN store ELSE lsTasks]]
    /\ ret' = [op |-> "read", caller |-> c]
    /\ UNCHANGED <<task, tasks, store, lsTasks, lsPatients, lsInitialized, patient, patients, clock>>

\* The caller applies completion by id to its snapshot.
RaceComplete(c, taskId) ==
    /\ callers[c].pc = "read"
    /\ LET me == callers[c]
           r == IF me.kind = "collection"
                THEN completeTaskInCollection(me.snapshot, taskId, CallerName(c), clock)
                ELSE patientService_completeTask(me.snapshot, taskId, CallerName(c), clock)
       IN  callers' = [callers EXCEPT ![c] =
                          [pc |-> "completed", kind |-> me.kind,
                           snapshot |-> me.snapshot, taskId |-> taskId,
                           now |-> clock, tasks |-> r.tasks, result |-> r.result]]
    /\ ret' = [op |-> "complete", caller |-> c]
    /\ UNCHANGED <<task, tasks, store, lsTasks, lsPatients, lsInitialized, patient, patients, clock>>

\* The caller writes its result back when its completion succeeded.
RaceWrite(c) ==
    /\ callers[c].pc = "completed"
    /\ LET me == callers[c] IN
       /\ store' = IF me.kind = "collection" /\ me.result.success
                   THEN writeBack(store, me.snapshot, me.tasks) ELSE store
       /\ lsTasks' = IF me.kind = "client" /\ me.result.success
                     THEN writeBack(lsTasks, me.snapshot, me.tasks) ELSE lsTasks
       /\ callers' = [callers EXCEPT ![c] = [me EXCEPT !.pc = "written"]]
    /\ ret' = [op |-> "write", caller |-> c]
    /\ UNCHANGED <<task, tasks, lsPatients, lsInitialized, patient, patients, clock>>

RaceTick ==
    /\ \E t \in StoreTimes : t > clock /\ clock' = t
    /\ UNCHANGED <<task, tasks, store, lsTasks, lsPatients, lsInitialized, patient, patients, callers, ret>>

NextRace ==
    \/ RaceTick
    \/ \E c \in Callers, kind \in {"collection", "client"} : RaceRead(c, kind)
    \/ \E c \in Callers, id \in Ids : RaceComplete(c, id)
    \/ \E c \in Callers : RaceWrite(c)

SpecRace == InitRace /\ [][NextRace]_vars

----------------------------------------------------------------------------
(* TaskStore filled from the generator, persisted and restored *)

\* Just before the window of the first rule opens, and the instant it opens.
OpTimes == {CollWindow.dueStart - 1, CollWindow.dueStart}

\* new TaskStore(), and the patient whose tasks it is going to hold.
InitOps ==
    /\ store = <<>>
    /\ patient \in BatchPatients
    /\ clock = CollWindow.dueStart - 1
    /\ lsTasks = <<>>
    /\ lsInitialized = FALSE
    /\ lsPatients = <<>>
    /\ patients = <<>>
    /\ callers = <<>>
    /\ task = DefaultTask
    /\ tasks = <<>>
    /\ ret = NoCall

\* store.addTasks(generateTasksForPatient(patient).slice(0, k)); rnds are
\* the suffixes of the k ids that are kept.
StoreAddTasks(rnds, k) ==
    /\ Len(store) + k <= MaxStore
    /\ LET generated == generateTasksForPatient(patient, clock,
                            [i \in 1..Len(TASK_RULES) |->
                                IF i <= k THEN rnds[i] ELSE 1])
           newTasks == SubSeq(generated, 1, k)
       IN  /\ k <= Len(generated)
           /\ store' = store \o newTasks
           /\ ret' = [op |-> "TaskStore.addTasks", newTasks |-> newTasks]
    /\ UNCHANGED <<task, tasks, lsTasks, lsPatients, lsInitialized, patient, patients, callers, clock>>

\* newStore.importFromJson(store.exportToJson()): the restored store takes
\* the place of the exporting one; nothing is restored when the export throws.
StoreExportImport ==
    LET r == serializeTasksForStorage(store) IN
    /\ store' = IF r.threw THEN store ELSE deserializeTasksFromStorage(r.json)
    /\ ret' = [op |-> "TaskStore.importFromJson", threw |-> r.threw]
    /\ UNCHANGED <<task, tasks, lsTasks, lsPatients, lsInitialized, patient, patients, callers, clock>>

OpsTick ==
    /\ \E t \in OpTimes : t > clock /\ clock' = t
    /\ UNCHANGED <<task, tasks, store, lsTasks, lsPatients, lsInitialized, patient, patients, callers, ret>>

\* The ids a caller can have learnt from the store.
StoredIds == {store[i].id : i \in DOMAIN store}

NextOps ==
    \/ OpsTick
    \/ \E k \in 1..(MaxStore - Len(store)) :
          \E rnds \in [1..k -> 1..NumRnd] : StoreAddTasks(rnds, k)
    \/ \E id \in StoredIds \cup {MissingId} : StoreCompleteTask(id, Some("Nurse A"))
    \/ \E id \in StoredIds \cup {MissingId} : StoreAddTaskNotes(id, "note 1")
    \/ StoreGetAllTasks
    \/ \E id \in StoredIds : StoreGetTaskById(id)
    \/ StoreExportImport

SpecOps == InitOps /\ [][NextOps]_vars

----------------------------------------------------------------------------
(* The unguarded status writers: taskGenerator.updateTask and the
   dashboard's updateTaskStatus *)

\* { ...task, ...updates }: every field the updates carry replaces the
\* task's field, the status included.
updateTask(t, updates) ==
    [k \in DOMAIN t |-> IF k \in DOMAIN updates THEN updates[k] ELSE t[k]]

\* The dashboard's updateTaskStatus over the stored tasks ts: the stored
\* tasks after the call and the task returned (None for undefined).
updateTaskStatus(ts, taskId, status, completedBy, now) ==
    LET taskIndex == findIndex(ts, taskId) IN
    IF taskIndex = 0
    THEN [tasks |-> ts, task |-> None]
    ELSE LET t == [ts[taskIndex] EXCEPT !.status = status]
             updated == IF status = "completed"
                        THEN [t EXCEPT !.completedAt = Some(now),
                                       !.completedBy = completedBy]
                        ELSE t
         IN  [tasks |-> [ts EXCEPT ![taskIndex] = updated],
              task |-> Some(updated)]

\* The updates a caller passes: a status alone, a note alone, or a completion.
Updates(now) ==
    {[status |-> s] : s \in Statuses}
    \cup {[notes |-> Some("note 1")]}
    \cup {[status |-> "completed", completedAt |-> Some(now),
           completedBy |-> Some("Nurse A")]}

\* One task in hand and the dashboard's stored tasks, after the window closed.
InitUpdate ==
    /\ task = DefaultTask
    /\ lsTasks \in Collections
    /\ lsInitialized = TRUE
    /\ clock = CollWindow.dueEnd + 1
    /\ tasks = <<>>
    /\ store = <<>>
    /\ lsPatients = <<>>
    /\ patients = <<>>
    /\ callers = <<>>
    /\ patient = DefaultPatient
    /\ ret = NoCall

UpdateTask(updates) ==
    /\ task' = updateTask(task, updates)
    /\ ret' = [op |-> "updateTask", updates |-> updates]
    /\ UNCHANGED <<tasks, store, lsTasks, lsPatients, lsInitialized, patient, patients, callers, clock>>

UpdateTaskStatus(taskId, status, completedBy) ==
    LET r == updateTaskStatus(lsTasks, taskId, status, completedBy, clock) IN
    /\ lsTasks' = r.tasks
    /\ ret' = [op |-> "Dashboard.updateTaskStatus", taskId |-> taskId,
               status |-> status, returned |-> r.task]
    /\ UNCHANGED <<task, tasks, store, lsPatients, lsInitialized, patient, patients, callers, clock>>

NextUpdate ==
    \/ \E updates \in Updates(clock) : UpdateTask(updates)
    \/ \E taskId \in Ids \cup {MissingId}, status \in Statuses :
          UpdateTaskStatus(taskId, status, Some("Nurse A"))

SpecUpdate == InitUpdate /\ [][NextUpdate]_vars

----------------------------------------------------------------------------
(* patientService: seeding, reads and writes on one localStorage *)

clientGetAllPatients_reseeds(ls, now, rnds) ==
    LET db == initializeDatabase_always(ls, now, rnds) IN
    [ls |-> db, patients |-> db.patients]

\* getAllPatients: initializeDatabase(), then the stored patients.
clientGetAllPatients(ls, now, rnds) ==
    LET db == initializeDatabase(ls, now, rnds) IN
    [ls |-> db, patients |-> db.patients]

\* patientService.addTaskNote over the stored tasks ts: the stored tasks
\* after the call and the task returned (None for null).
clientAddTaskNote(ts, taskId, note) ==
    LET taskIndex == findIndex(ts, taskId) IN
    IF taskIndex = 0
    THEN [tasks |-> ts, task |-> None]
    ELSE LET updated == [ts[taskIndex] EXCEPT !.notes = Some(note)] IN
         [tasks |-> [ts EXCEPT ![taskIndex] = updated], task |-> Some(updated)]

\* Just before the window of the first seed task opens, and inside it.
SeedTimes == {CollWindow.dueStart - 1, CollWindow.dueStart + 2 * HourMs}

\* A browser whose localStorage is still empty.
InitSeed ==
    /\ lsTasks = <<>>
    /\ lsPatients = <<>>
    /\ lsInitialized = FALSE
    /\ clock = CollWindow.dueStart - 1
    /\ store = <<>>
    /\ task = DefaultTask
    /\ tasks = <<>>
    /\ patients = <<>>
    /\ callers = <<>>
    /\ patient = DefaultPatient
    /\ ret = NoCall

ClientGetAllPatients(rnds) ==
    LET r == clientGetAllPatients(localStorage, clock, rnds) IN
    /\ lsPatients' = r.ls.patients
    /\ lsTasks' = r.ls.tasks
    /\ lsInitialized' = r.ls.initialized
    /\ ret' = [op |-> "patientService.getAllPatients", patients |-> r.patients]
    /\ UNCHANGED <<task, tasks, store, patient, patients, callers, clock>>

ClientAddTaskNote(taskId, note) ==
    LET r == clientAddTaskNote(lsTasks, taskId, note) IN
    /\ lsTasks' = r.tasks
    /\ ret' = [op |-> "patientService.addTaskNote", taskId |-> taskId, task |-> r.task]
    /\ UNCHANGED <<task, tasks, store, lsPatients, lsInitialized, patient, patients, callers, clock>>

SeedTick ==
    /\ \E t \in SeedTimes : t > clock /\ clock' = t
    /\ UNCHANGED <<task, tasks, store, lsTasks, lsPatients, lsInitialized, patient, patients, callers, ret>>

\* The ids a caller can have learnt from a read of the stored tasks.
SeededIds == {lsTasks[i].id : i \in DOMAIN lsTasks}

NextSeed ==
    \/ SeedTick
    \/ \E rnds \in [1..randomDraws(SEED_PATIENTS) -> 1..NumRnd] :
          InitializeDatabase(rnds)
    \/ \E rnds \in [1..randomDraws(SEED_PATIENTS) -> 1..NumRnd] :
          ClientGetAllTasks(rnds)
    \/ \E rnds \in [1..randomDraws(SEED_PATIENTS) -> 1..NumRnd] :
          ClientGetAllPatients(rnds)
    \/ \E id \in SeededIds \cup {MissingId} : ClientCompleteTask(id, Some("Nurse A"))
    \/ \E id \in SeededIds \cup {MissingId} : ClientAddTaskNote(id, "note 1")

SpecSeed == InitSeed /\ [][NextSeed]_vars

----------------------------------------------------------------------------
(* The transition table next to the completion guard *)

\* The four statuses and a string that is none of them.
TransitionInputs == Statuses \cup {"cancelled"}

\* The times around each window, and an Invalid Date.
GuardTimes == Times \cup {NaN}

IsValidTransition(fromStatus, toStatus) ==
    /\ ret' = [op |-> "isValidTransition", fromStatus |-> fromStatus,
               toStatus |-> toStatus,
               result |-> isValidTransition(fromStatus, toStatus)]
    /\ UNCHANGED <<task, tasks, store, lsTasks, lsPatients, lsInitialized, patient, patients, callers, clock>>

\* canCompleteTask and completeTask called on the same task at the same now.
CanCompleteTask(now) ==
    /\ ret' = [op |-> "canCompleteTask", input |-> task, now |-> now,
               result |-> canCompleteTask(task, now),
               completion |-> completeTask(task, Some("Nurse A"), now)]
    /\ UNCHANGED <<task, tasks, store, lsTasks, lsPatients, lsInitialized, patient, patients, callers, clock>>

NextGuard ==
    \/ \E fromStatus \in TransitionInputs, toStatus \in TransitionInputs :
          IsValidTransition(fromStatus, toStatus)
    \/ \E now \in GuardTimes : CanCompleteTask(now)

SpecGuard == InitTask /\ [][NextGuard]_vars

----------------------------------------------------------------------------
(* A reader of the TaskStore: the status each task last showed *)

\* A TaskStore built from generated tasks, and the reader's first
\* getAllTasks; tasks[i] is store[i] as the reader last saw it.
InitShown ==
    /\ store \in UNION {[1..n -> StoreTasks] : n \in 1..MaxStore}
    /\ clock = CollWindow.dueStart - 1
    /\ tasks = withStatus(store, clock)
    /\ task = DefaultTask
    /\ lsTasks = <<>>
    /\ lsPatients = <<>>
    /\ lsInitialized = FALSE
    /\ patients = <<>>
    /\ callers = <<>>
    /\ patient = DefaultPatient
    /\ ret = NoCall

ShownGetAllTasks ==
    /\ tasks' = withStatus(store, clock)
    /\ ret' = [op |-> "TaskStore.getAllTasks", now |-> clock]
    /\ UNCHANGED <<task, store, lsTasks, lsPatients, lsInitialized, patient, patients, callers, clock>>

ShownGetTaskById(taskId) ==
    LET found == findTaskById(store, taskId) IN
    /\ tasks' = IF found = None THEN tasks
                ELSE [tasks EXCEPT ![findIndex(store, taskId)] = found[1]]
    /\ ret' = [op |-> "TaskStore.getTaskById", taskId |-> taskId]
    /\ UNCHANGED <<task, store, lsTasks, lsPatients, lsInitialized, patient, patients, callers, clock>>

NextShown ==
    \/ Tick
    \/ ShownGetAllTasks
    \/ \E id \in Ids \cup {MissingId} : ShownGetTaskById(id)
    \/ \E id \in Ids \cup {MissingId} : StoreCompleteTask(id, Some("Nurse A"))
    \/ \E id \in Ids \cup {MissingId} : StoreAddTaskNotes(id, "note 1")

SpecShown == InitShown /\ [][NextShown]_vars

----------------------------------------------------------------------------
(* One task under a clock that keeps advancing *)

LaterTimes_stopsBeforeWindow(now) ==
    {t \in Times : t > now /\ t < Window(1).dueStart}

\* The values new Date() can take on a later call.
LaterTimes(now) == {t \in Times : t > now}

\* A task of the input set, one millisecond before the first window opens.
InitLive ==
    /\ task \in TaskInputs
    /\ clock = Window(1).dueStart - 1
    /\ tasks = <<>>
    /\ store = <<>>
    /\ lsTasks = <<>>
    /\ lsPatients = <<>>
    /\ lsInitialized = FALSE
    /\ patients = <<>>
    /\ callers = <<>>
    /\ patient = DefaultPatient
    /\ ret = NoCall

LiveTick ==
    /\ \E t \in LaterTimes(clock) : clock' = t
    /\ UNCHANGED <<task, tasks, store, lsTasks, lsPatients, lsInitialized, patient, patients, callers, ret>>

\* const result = completeTask(task, completedBy); if (result.success) the
\* caller keeps result.task.
LiveCompleteTask(completedBy) ==
    LET result == completeTask(task, completedBy, clock) IN
    /\ task' = IF result.success THEN result.task[1] ELSE task
    /\ ret' = [op |-> "completeTask", now |-> clock, success |-> result.success]
    /\ UNCHANGED <<tasks, store, lsTasks, lsPatients, lsInitialized, patient, patients, callers, clock>>

LiveAddTaskNotes(notes) ==
    /\ task' = addTaskNotes(task, notes)
    /\ ret' = [op |-> "addTaskNotes", now |-> clock, success |-> TRUE]
    /\ UNCHANGED <<tasks, store, lsTasks, lsPatients, lsInitialized, patient, patients, callers, clock>>

NextLive ==
    \/ LiveTick
    \/ LiveCompleteTask(Some("Nurse A"))
    \/ LiveAddTaskNotes("note 1")

SpecLive == InitLive /\ [][NextLive]_vars

\* The clock advances without bound: time never stops while a later instant
\* exists.
SpecLiveFair == SpecLive /\ WF_vars(LiveTick)

----------------------------------------------------------------------------
(* taskGenerator.ts: the two overdue flags of one task *)

\* The input tasks, and one whose window closes before it opens.
OverdueInputs ==
    TaskInputs
    \cup {MkTask(generateTaskId(Discharge, 1),
                 [type |-> "contact_patient", dueStart |-> Window(1).dueEnd,
                  dueEnd |-> Window(1).dueStart],
                 "pending", None, None, None)}

InitOverdue ==
    /\ task \in OverdueInputs
    /\ tasks = <<>>
    /\ store = <<>>
    /\ lsTasks = <<>>
    /\ lsPatients = <<>>
    /\ lsInitialized = FALSE
    /\ patients = <<>>
    /\ callers = <<>>
    /\ patient = DefaultPatient
    /\ clock = Discharge
    /\ ret = NoCall

\* getTimeRemainingFormatted(task, now) and isTaskOverdue(task, now) on the
\* same task at the same now.
OverdueFlags(now) ==
    /\ ret' = [op |-> "isTaskOverdue", input |-> task, now |-> now,
               formatted |-> getTimeRemainingFormatted(task, now),
               overdue |-> isTaskOverdue(task, now)]
    /\ UNCHANGED <<task, tasks, store, lsTasks, lsPatients, lsInitialized, patient, patients, callers, clock>>

NextOverdue ==
    \/ \E now \in RemainingTimes \cup {NaN} : OverdueFlags(now)

SpecOverdue == InitOverdue /\ [][NextOverdue]_vars

----------------------------------------------------------------------------
(* Two callers applying the same two collection operations in either order *)

\* Caller 1 completes a and then adds notes to b; caller 2 adds the notes
\* first. Each works on the array the previous call returned.
FirstOp(c) == IF c = 1 THEN "complete" ELSE "notes"

\* One call of a caller: the array it returns and the result it reports.
applyOp(op, ts, a, b, now) ==
    IF op = "complete"
    THEN LET r == completeTaskInCollection(ts, a, Some("Nurse A"), now) IN
         [tasks |-> r.tasks, result |-> r.result]
    ELSE LET r == addNotesToTaskInCollection(ts, b, "note 1") IN
         [tasks |-> r.tasks, result |-> [success |-> r.success, error |-> r.error]]

InitCommute ==
    /\ tasks \in Collections
    /\ clock \in CollTimes
    /\ callers = [c \in Callers |-> [pc |-> "idle", tasks |-> tasks]]
    /\ task = DefaultTask
    /\ store = <<>>
    /\ lsTasks = <<>>
    /\ lsPatients = <<>>
    /\ lsInitialized = FALSE
    /\ patients = <<>>
    /\ patient = DefaultPatient
    /\ ret = NoCall

\* Both callers are handed the same array and the same two ids.
CommuteBegin(a, b) ==
    /\ \A c \in Callers : callers[c].pc = "idle"
    /\ callers' = [c \in Callers |->
                     [pc |-> "first", tasks |-> tasks, a |-> a, b |-> b]]
    /\ ret' = [op |-> "begin", a |-> a, b |-> b]
    /\ UNCHANGED <<task, tasks, store, lsTasks, lsPatients, lsInitialized, patient, patients, clock>>

CommuteFirst(c) ==
    /\ callers[c].pc = "first"
    /\ LET op == FirstOp(c)
           r == applyOp(op, callers[c].tasks, callers[c].a, callers[c].b, clock)
       IN  callers' = [callers EXCEPT ![c] =
                          [pc |-> "second", tasks |-> r.tasks,
                           a |-> callers[c].a, b |-> callers[c].b,
                           first |-> r.result]]
    /\ ret' = [op |-> FirstOp(c), caller |-> c]
    /\ UNCHANGED <<task, tasks, store, lsTasks, lsPatients, lsInitialized, patient, patients, clock>>

CommuteSecond(c) ==
    /\ callers[c].pc = "second"
    /\ LET op == FirstOp(3 - c)
           r == applyOp(op, callers[c].tasks, callers[c].a, callers[c].b, clock)
       IN  callers' = [callers EXCEPT ![c] =
                          [pc |-> "done", tasks |-> r.tasks,
                           a |-> callers[c].a, b |-> callers[c].b,
                           first |-> callers[c].first, second |-> r.result]]
    /\ ret' = [op |-> FirstOp(3 - c), caller |-> c]
    /\ UNCHANGED <<task, tasks, store, lsTasks, lsPatients, lsInitialized, patient, patients, clock>>

NextCommute ==
    \/ \E a \in Ids \cup {MissingId}, b \in Ids \cup {MissingId} : CommuteBegin(a, b)
    \/ \E c \in Callers : CommuteFirst(c)
    \/ \E c \in Callers : CommuteSecond(c)

SpecCommute == InitCommute /\ [][NextCommute]_vars

----------------------------------------------------------------------------
(* TaskListView: the task cards of one session over the seeded storage *)

\* TaskCard renders its Mark Complete button for these tasks only.
isCompletable(t) == t.status = "pending" \/ t.status = "overdue"

\* Before the first window opens, as it opens, and after the last one closed.
UiTimes == {Window(1).dueStart - 1, Window(1).dueStart, Window(5).dueEnd + 1}

\* A browser whose localStorage is empty and a view not mounted yet.
InitUi ==
    /\ tasks = <<>>
    /\ lsTasks = <<>>
    /\ lsPatients = <<>>
    /\ lsInitialized = FALSE
    /\ clock \in UiTimes
    /\ store = <<>>
    /\ task = DefaultTask
    /\ patients = <<>>
    /\ callers = <<>>
    /\ patient = DefaultPatient
    /\ ret = NoCall

\* useState(() => getAllTasks()): the first render seeds the storage and
\* shows every task with the status derived at that moment.
UiMount(rnds) ==
    /\ ret = NoCall
    /\ LET ls == initializeDatabase(localStorage, clock, rnds) IN
       /\ lsPatients' = ls.patients
       /\ lsTasks' = ls.tasks
       /\ lsInitialized' = ls.initialized
       /\ tasks' = withStatus(ls.tasks, clock)
    /\ ret' = [op |-> "TaskListView.mount", now |-> clock]
    /\ UNCHANGED <<task, store, patient, patients, callers, clock>>

\* A click on the button of the i-th card: handleCompleteTask(task.id) calls
\* completeTask(taskId) and, when a task comes back, setTasks(getAllTasks()).
\* derived is the status, at the click, of the stored task the call overwrites.
UiClickComplete(i) ==
    /\ i \in DOMAIN tasks
    /\ isCompletable(tasks[i])
    /\ LET taskId == tasks[i].id
           target == findTaskById(lsTasks, taskId)
           r == patientService_completeTask(lsTasks, taskId, None, clock)
       IN  /\ lsTasks' = r.tasks
           /\ tasks' = IF r.result.success THEN withStatus(r.tasks, clock) ELSE tasks
           /\ ret' = [op |-> "patientService.completeTask", card |-> i,
                      taskId |-> taskId, now |-> clock,
                      derived |-> IF target = None THEN "none"
                                  ELSE calculateTaskStatus(target[1], clock)]
    /\ UNCHANGED <<task, store, lsPatients, lsInitialized, patient, patients, callers, clock>>

UiTick ==
    /\ \E t \in UiTimes : t > clock /\ clock' = t
    /\ UNCHANGED <<task, tasks, store, lsTasks, lsPatients, lsInitialized, patient, patients, callers, ret>>

NextUi ==
    \/ UiTick
    \/ \E rnds \in [1..randomDraws(SEED_PATIENTS) -> 1..NumRnd] : UiMount(rnds)
    \/ \E i \in 1..Len(TASK_RULES) : UiClickComplete(i)

SpecUi == InitUi /\ [][NextUi]_vars

----------------------------------------------------------------------------
(* Properties of the single-task functions *)

\* C1: completeTask succeeds exactly when the derived status is pending or
\* overdue, fails with 'Task is already completed' exactly when it is
\* completed, and with 'Cannot complete a task before its window opens'
\* exactly when it is upcoming.
C1_TransitionLegality ==
    ret.op = "completeTask" =>
        LET s == calculateTaskStatus(ret.input, ret.now)
            r == ret.result
        IN  /\ r.success <=> s \in {"pending", "overdue"}
            /\ (~r.success /\ r.error = Some("Task is already completed"))
                   <=> s = "completed"
            /\ (~r.success /\ r.error =
                    Some("Cannot complete a task before its window opens"))
                   <=> s = "upcoming"

\* A completion one millisecond before the window opens was rejected.
C1_Witness ==
    /\ ret.op = "completeTask"
    /\ ret.input.status = "pending"
    /\ ret.now = ret.input.dueStart - 1
    /\ ~ret.result.success
    /\ ret.result.error = Some("Cannot complete a task before its window opens")

\* C2: calculateTaskStatus always returns one of the four statuses:
\* completed whenever the stored status is completed, otherwise upcoming
\* when now < dueStart, overdue when now > dueEnd and pending otherwise;
\* both window bounds are inclusive.
C2_StatusTotalAndInclusive ==
    ret.op = "calculateTaskStatus" =>
        LET t == ret.input
            now == ret.now
            s == ret.status
        IN  /\ s \in Statuses
            /\ t.status = "completed" => s = "completed"
            /\ t.status # "completed" =>
                  /\ DateLt(now, t.dueStart) => s = "upcoming"
                  /\ (~DateLt(now, t.dueStart) /\ DateGt(now, t.dueEnd))
                        => s = "overdue"
                  /\ (~DateLt(now, t.dueStart) /\ ~DateGt(now, t.dueEnd))
                        => s = "pending"
                  /\ now = t.dueStart => s = "pending"
                  /\ now = t.dueEnd => s = "pending"
                  /\ (t.dueStart # NaN /\ now = t.dueStart - 1) => s = "upcoming"
                  /\ (t.dueEnd # NaN /\ now = t.dueEnd + 1) => s = "overdue"

\* A task that is not completed was read exactly at its deadline.
C2_Witness ==
    /\ ret.op = "calculateTaskStatus"
    /\ ret.input.status # "completed"
    /\ ret.now = ret.input.dueEnd
    /\ ret.status = "pending"

\* C7: a successful completeTask returns a task with status completed,
\* completedAt = now, completedBy = the supplied value (absent when none),
\* and the input's id, patientId, type, dueStart, dueEnd and notes; the
\* input task is not modified.
C7_CompletionResult ==
    (ret.op = "completeTask" /\ ret.result.success) =>
        /\ ret.result.task # None
        /\ LET out == ret.result.task[1]
                in == ret.input
            IN  /\ out.status = "completed"
                /\ out.completedAt = Some(ret.now)
                /\ out.completedBy = ret.completedBy
                /\ out.id = in.id
                /\ out.patientId = in.patientId
                /\ out.type = in.type
                /\ out.dueStart = in.dueStart
                /\ out.dueEnd = in.dueEnd
                /\ out.notes = in.notes
        /\ task = ret.input

\* An overdue task carrying notes was completed without a completedBy.
C7_Witness ==
    /\ ret.op = "completeTask"
    /\ ret.result.success
    /\ ret.completedBy = None
    /\ ret.input.notes # None
    /\ ret.now = ret.input.dueEnd + 1
    /\ ret.result.task[1].completedAt = Some(ret.now)

\* C9: addTaskNotes works in any status, replaces notes with the given
\* text and leaves every other field, and the input task, unchanged.
C9_NotesFrame ==
    ret.op = "addTaskNotes" =>
        /\ ret.task = [ret.input EXCEPT !.notes = Some(ret.notes)]
        /\ ret.task.status = ret.input.status
        /\ ret.task.completedAt = ret.input.completedAt
        /\ ret.task.completedBy = ret.input.completedBy
        /\ ret.task.id = ret.input.id
        /\ ret.task.patientId = ret.input.patientId
        /\ ret.task.type = ret.input.type
        /\ ret.task.dueStart = ret.input.dueStart
        /\ ret.task.dueEnd = ret.input.dueEnd
        /\ task = ret.input

\* The notes of a completed task were overwritten by a different text.
C9_Witness ==
    /\ ret.op = "addTaskNotes"
    /\ ret.input.status = "completed"
    /\ ret.input.completedAt # None
    /\ ret.input.notes = Some("note 1")
    /\ ret.notes = "note 2"
    /\ ret.task.notes = Some("note 2")

----------------------------------------------------------------------------
(* Properties of the collection helpers and of the TaskStore *)

\* C3: in a TaskStore a completed task stays completed with the completedAt
\* and completedBy of the completion that succeeded, whatever completeTask,
\* addTaskNotes and read calls follow, and every later completeTask for its
\* id fails.
C3_CompletedIsTerminal ==
    [][\A i \in DOMAIN store :
          store[i].status = "completed" =>
              /\ i \in DOMAIN store'
              /\ store'[i].status = "completed"
              /\ store'[i].completedAt = store[i].completedAt
              /\ store'[i].completedBy = store[i].completedBy
              /\ (/\ ret' # ret
                  /\ ret'.op = "TaskStore.completeTask"
                  /\ ret'.taskId = store[i].id
                  /\ \A j \in 1..(i - 1) : store[j].id # store[i].id)
                    => ~ret'.result.success]_vars

\* A task completed earlier, with notes added since, was asked to be
\* completed again at a later time by somebody else, and was refused.
C3_Witness ==
    /\ ret.op = "TaskStore.completeTask"
    /\ ~ret.result.success
    /\ ret.result.error = Some("Task is already completed")
    /\ \E i \in DOMAIN store :
          /\ store[i].id = ret.taskId
          /\ store[i].status = "completed"
          /\ store[i].completedAt # Some(clock)
          /\ store[i].completedBy # ret.completedBy
          /\ store[i].notes # None

\* C5: when the targeted task is already completed or its window is not yet
\* open, completeTaskInCollection returns the failure as a value together
\* with the input collection, and TaskStore.completeTask leaves the store's
\* list unchanged.
C5_RejectionLeavesCollection ==
    ret.op = "TaskStore.completeTask" =>
        \A i \in DOMAIN ret.before :
            (/\ ret.before[i].id = ret.taskId
             /\ \A j \in 1..(i - 1) : ret.before[j].id # ret.taskId
             /\ calculateTaskStatus(ret.before[i], ret.now)
                    \in {"completed", "upcoming"})
            => /\ ~ret.result.success
               /\ ret.result.error # None
               /\ ret.result.task = None
               /\ ret.returned = ret.before
               /\ store = ret.before

\* A completion was refused because the window had not opened yet.
C5_Witness ==
    /\ ret.op = "TaskStore.completeTask"
    /\ ~ret.result.success
    /\ ret.result.error = Some("Cannot complete a task before its window opens")
    /\ \E i \in DOMAIN store : store[i].id = ret.taskId
    /\ ret.returned = ret.before
    /\ store = ret.before

\* C6: with no task of the given id, completeTaskInCollection,
\* addNotesToTaskInCollection and the TaskStore wrappers return a not-found
\* failure as a value and the original collection; the store is unchanged.
C6_NotFoundIsAValue ==
    (/\ ret.op \in {"TaskStore.completeTask", "TaskStore.addTaskNotes"}
     /\ \A i \in DOMAIN ret.before : ret.before[i].id # ret.taskId)
    => /\ ~ret.result.success
       /\ ret.result.error = Some(NotFoundError(ret.taskId))
       /\ ret.returned = ret.before
       /\ store = ret.before

\* Notes were sent to an id that no stored task has.
C6_Witness ==
    /\ ret.op = "TaskStore.addTaskNotes"
    /\ store # <<>>
    /\ \A i \in DOMAIN store : store[i].id # ret.taskId
    /\ ~ret.result.success
    /\ store = ret.before

\* C8: on success completeTaskInCollection and addNotesToTaskInCollection
\* return a collection of the same length and order in which only the entry
\* at the index of the first task with the id is replaced by the operation's
\* result; the input collection is not modified.
C8_SpliceAtFirstMatch ==
    /\ (ret.op = "completeTaskInCollection" /\ ret.out.result.success) =>
          /\ Len(ret.out.tasks) = Len(ret.input)
          /\ \E i \in DOMAIN ret.input :
                /\ ret.input[i].id = ret.taskId
                /\ \A j \in 1..(i - 1) : ret.input[j].id # ret.taskId
                /\ Some(ret.out.tasks[i]) = ret.out.result.task
                /\ ret.out.tasks[i].status = "completed"
                /\ \A j \in DOMAIN ret.input :
                      j # i => ret.out.tasks[j] = ret.input[j]
          /\ tasks = ret.input
    /\ (ret.op = "addNotesToTaskInCollection" /\ ret.out.success) =>
          /\ Len(ret.out.tasks) = Len(ret.input)
          /\ \E i \in DOMAIN ret.input :
                /\ ret.input[i].id = ret.taskId
                /\ \A j \in 1..(i - 1) : ret.input[j].id # ret.taskId
                /\ ret.out.tasks[i] = [ret.input[i] EXCEPT !.notes = Some(ret.notes)]
                /\ \A j \in DOMAIN ret.input :
                      j # i => ret.out.tasks[j] = ret.input[j]
          /\ tasks = ret.input

\* Two tasks share the id; the first was completed and the second kept.
C8_Witness ==
    /\ ret.op = "completeTaskInCollection"
    /\ ret.out.result.success
    /\ Len(ret.input) = 2
    /\ ret.input[1].id = ret.taskId
    /\ ret.input[2].id = ret.taskId
    /\ ret.input[2].status # "completed"
    /\ ret.out.tasks[1].status = "completed"
    /\ ret.out.tasks[2] = ret.input[2]

----------------------------------------------------------------------------
(* Properties of the generator and of the other completion entry points *)

\* C4: completeTaskInList and patientService.completeTask, called for a task
\* whose derived status is completed or upcoming, report a failure and leave
\* the task's status, completedAt and completedBy unchanged.
C4_EntryPointsGuarded ==
    /\ ret.op = "completeTaskInList" =>
          \A i \in DOMAIN ret.input :
              (/\ ret.input[i].id = ret.taskId
               /\ \A j \in 1..(i - 1) : ret.input[j].id # ret.taskId
               /\ calculateTaskStatus(ret.input[i], ret.now)
                      \in {"completed", "upcoming"})
              => /\ ret.out.completedTask = None
                 /\ ret.out.tasks[i].status = ret.input[i].status
                 /\ ret.out.tasks[i].completedAt = ret.input[i].completedAt
                 /\ ret.out.tasks[i].completedBy = ret.input[i].completedBy
    /\ ret.op = "patientService.completeTask" =>
          \A i \in DOMAIN ret.before :
              (/\ ret.before[i].id = ret.taskId
               /\ \A j \in 1..(i - 1) : ret.before[j].id # ret.taskId
               /\ calculateTaskStatus(ret.before[i], ret.now)
                      \in {"completed", "upcoming"})
              => /\ ret.task = None
                 /\ lsTasks[i].status = ret.before[i].status
                 /\ lsTasks[i].completedAt = ret.before[i].completedAt
                 /\ lsTasks[i].completedBy = ret.before[i].completedBy

\* C10: generateTasksForPatient returns one task per rule whose condition
\* holds, in rule-table order, each pending and carrying the patient's id:
\* the three base tasks always, facility_handoff exactly for 'Skilled nursing
\* facility', checkin_call exactly for High or Very High readmission risk.
C10_OneTaskPerApplicableRule ==
    ret.op = "generateTasksForPatient" =>
        LET p == ret.input
            out == ret.tasks
            expected ==
                <<"contact_patient", "medication_reconciliation",
                  "followup_scheduling">>
                \o (IF p.dischargeDisposition = "Skilled nursing facility"
                    THEN <<"facility_handoff">> ELSE <<>>)
                \o (IF p.readmissionRiskScore \in {"High", "Very High"}
                    THEN <<"checkin_call">> ELSE <<>>)
        IN  /\ [i \in DOMAIN out |-> out[i].type] = expected
            /\ \A i \in DOMAIN out :
                  /\ out[i].status = "pending"
                  /\ out[i].patientId = p.patientId

\* A Very High risk patient sent to a skilled nursing facility got all five.
C10_Witness ==
    /\ ret.op = "generateTasksForPatient"
    /\ ret.input.dischargeDisposition = "Skilled nursing facility"
    /\ ret.input.readmissionRiskScore = "Very High"
    /\ Len(ret.tasks) = 5
    /\ ret.tasks[4].type = "facility_handoff"
    /\ ret.tasks[5].type = "checkin_call"

----------------------------------------------------------------------------
(* Properties of generation: windows, ids, malformed input *)

\* C11: every generated task has dueStart = discharge datetime +
\* windowStartHours and dueEnd = discharge datetime + windowEndHours (the
\* time defaulting to 00:00), every rule has windowStartHours <=
\* windowEndHours, and so dueStart <= dueEnd for every generated task.
C11_WindowsOrdered ==
    ret.op = "generateTasksForPatient" =>
        LET p == ret.input
            discharge == parseLocalDateTime(p.dischargeDate,
                            IF p.dischargeTime = None THEN <<0, 0>>
                            ELSE p.dischargeTime)
        IN  /\ \A r \in DOMAIN TASK_RULES :
                  TASK_RULES[r].windowStartHours <= TASK_RULES[r].windowEndHours
            /\ \A i \in DOMAIN ret.tasks :
                  \E r \in DOMAIN TASK_RULES :
                      /\ TASK_RULES[r].type = ret.tasks[i].type
                      /\ ret.tasks[i].dueStart =
                            DatePlus(discharge, TASK_RULES[r].windowStartHours * HourMs)
                      /\ ret.tasks[i].dueEnd =
                            DatePlus(discharge, TASK_RULES[r].windowEndHours * HourMs)
                      /\ ret.tasks[i].dueStart # NaN
                      /\ ret.tasks[i].dueEnd # NaN
                      /\ ret.tasks[i].dueStart <= ret.tasks[i].dueEnd

\* C12: the ids of the tasks generated in one process are pairwise distinct,
\* also within one millisecond and for a patient generated twice.
C12_IdsDistinct ==
    ret.op \in {"generateTasksForPatient", "generateTasksForPatients"} =>
        \A i, j \in DOMAIN ret.tasks :
            i # j => ret.tasks[i].id # ret.tasks[j].id

\* C13: a discharge date or time that does not parse is reported to the
\* caller as an error and no tasks are returned, for the single call and for
\* the whole batch; a well-formed patient never fails.
C13_MalformedDateReported ==
    /\ ret.op = "generateTasksForPatient" =>
          IF getDischargeDateTime(ret.input) = NaN
          THEN ret.error # None
          ELSE ret.error = None
    /\ ret.op = "generateTasksForPatients" =>
          IF \E k \in DOMAIN ret.input : getDischargeDateTime(ret.input[k]) = NaN
          THEN ret.error # None
          ELSE ret.error = None

----------------------------------------------------------------------------
(* Properties of the refresh and the status filters *)

\* C14: updateTaskStatuses(tasks, now) returns a collection of the same
\* length and order in which each task differs from its input only in
\* status, which is calculateTaskStatus(task, now); completed tasks come back
\* unchanged; refreshing the result again at any t2 equals refreshing the
\* original collection at t2, and refreshing it again at now changes nothing.
C14_RefreshIsSnapshot ==
    ret.op = "updateTaskStatuses" =>
        /\ Len(ret.out) = Len(ret.input)
        /\ \A i \in DOMAIN ret.input :
              /\ ret.out[i] = [ret.input[i] EXCEPT
                                  !.status = calculateTaskStatus(ret.input[i], ret.now)]
              /\ ret.input[i].status = "completed" => ret.out[i] = ret.input[i]
        /\ \A t2 \in QueryTimes :
              updateTaskStatuses(ret.out, t2) = updateTaskStatuses(ret.input, t2)
        /\ updateTaskStatuses(ret.out, ret.now) = ret.out

\* A refresh that rewrote a stale stored status, returned a completed task,
\* and whose result would change again at a later time.
C14_Witness ==
    /\ ret.op = "updateTaskStatuses"
    /\ \E i \in DOMAIN ret.input :
          /\ ret.input[i].status \in {"overdue", "upcoming"}
          /\ ret.out[i].status # ret.input[i].status
    /\ \E i \in DOMAIN ret.input : ret.input[i].status = "completed"
    /\ \E t2 \in QueryTimes : updateTaskStatuses(ret.out, t2) # ret.out

\* C18: getOverdueTasks, getPendingTasks and getUpcomingTasks return, in the
\* original order, exactly the tasks whose derived status at now is overdue,
\* pending and upcoming; getCompletedTasks returns exactly those whose
\* derived status is completed; the four results are pairwise disjoint and
\* together contain every task of the collection.
C18_FiltersPartition ==
    ret.op \in {"getOverdueTasks", "getPendingTasks", "getUpcomingTasks",
                "getCompletedTasks"} =>
        LET ts == ret.input
            now == ret.now
            derived(status) ==
                SelectSeq(ts, LAMBDA t : calculateTaskStatus(t, now) = status)
            Range(q) == {q[i] : i \in DOMAIN q}
            o == getOverdueTasks(ts, now)
            pd == getPendingTasks(ts, now)
            u == getUpcomingTasks(ts, now)
            c == getCompletedTasks(ts)
        IN  /\ ret.op = "getOverdueTasks" => ret.out = derived("overdue")
            /\ ret.op = "getPendingTasks" => ret.out = derived("pending")
            /\ ret.op = "getUpcomingTasks" => ret.out = derived("upcoming")
            /\ ret.op = "getCompletedTasks" => ret.out = derived("completed")
            /\ ret.out \in {o, pd, u, c}
            /\ Range(o) \cap Range(pd) = {} /\ Range(o) \cap Range(u) = {}
            /\ Range(o) \cap Range(c) = {} /\ Range(pd) \cap Range(u) = {}
            /\ Range(pd) \cap Range(c) = {} /\ Range(u) \cap Range(c) = {}
            /\ Range(o) \cup Range(pd) \cup Range(u) \cup Range(c) = Range(ts)
            /\ Len(o) + Len(pd) + Len(u) + Len(c) = Len(ts)

\* The pending filter returned a task stored as overdue and left out a task
\* stored as pending, in a collection that also holds a completed task.
C18_Witness ==
    /\ ret.op = "getPendingTasks"
    /\ Len(ret.input) = MaxTasks
    /\ Len(ret.out) = 1
    /\ ret.out[1].status = "overdue"
    /\ \E i \in DOMAIN ret.input : ret.input[i].status = "completed"

----------------------------------------------------------------------------
(* Properties of the read accessors *)

StoreReadOps == {"TaskStore.getAllTasks", "TaskStore.getTasksByPatientId",
                 "TaskStore.getTasksByStatus"}

\* C15 as stated: after TaskStore.getAllTasks, getTasksByPatientId or
\* getTasksByStatus, and after the client getAllTasks, the stored tasks are
\* identical to what they were before the call.
C15_ReadsNeverChangeStorage ==
    [][/\ ret'.op \in StoreReadOps => store' = store
       /\ ret'.op = "patientService.getAllTasks" => lsTasks' = lsTasks]_vars

\* C15, amended: the TaskStore read accessors never change the stored tasks,
\* and the client getAllTasks leaves localStorage as it was whenever the
\* database had been initialized before the call.
C15_ReadsLeaveInitializedStorage ==
    [][/\ ret'.op \in StoreReadOps => store' = store
       /\ (ret'.op = "patientService.getAllTasks" /\ lsInitialized) =>
             /\ lsTasks' = lsTasks
             /\ lsPatients' = lsPatients
             /\ lsInitialized']_vars

\* The client getAllTasks ran on an initialized database, returned a status
\* that differs from the stored one, and the stored tasks are as before.
C15_Witness ==
    /\ ret.op = "patientService.getAllTasks"
    /\ ret.before.initialized
    /\ lsTasks # <<>>
    /\ lsTasks = ret.before.tasks
    /\ \E i \in DOMAIN lsTasks : ret.tasks[i].status # lsTasks[i].status

\* C16: every read accessor of the TaskStore (getAllTasks, getTaskById,
\* getTasksByPatientId, getTasksByStatus) and of the client services
\* (getAllTasks, getTasks) returns each task with the status derived from its
\* window, its completion and the time of the read.
C16_ReadsReturnDerivedStatus ==
    /\ ret.op \in StoreReadOps \cup {"patientService.getAllTasks", "Dashboard.getTasks"} =>
          \A i \in DOMAIN ret.tasks :
              ret.tasks[i].status = calculateTaskStatus(ret.tasks[i], ret.now)
    /\ (ret.op = "TaskStore.getTaskById" /\ ret.task # None) =>
          ret.task[1].status = calculateTaskStatus(ret.task[1], clock)

----------------------------------------------------------------------------
(* Properties of the storage boundary *)

\* C17: deserializeTasksFromStorage(serializeTasksForStorage(tasks)) equals
\* tasks field for field, in the same order, with timestamps equal to the
\* millisecond and absent optional fields still absent; the same holds for
\* TaskStore.exportToJson followed by importFromJson.
C17_RoundTrip ==
    /\ ret.op \in {"serializeTasksForStorage", "TaskStore.exportToJson"} =>
          ~ret.result.threw
    /\ ret.op = "deserializeTasksFromStorage" => ret.out = ret.input
    /\ ret.op = "TaskStore.importFromJson" => store = ret.input

\* The round trip of a collection whose dates are all valid, and which holds
\* a completed task with every optional field and a task with none.
C17_ValidRoundTrip ==
    /\ ret.op = "deserializeTasksFromStorage"
    /\ ret.out = ret.input
    /\ \E i \in DOMAIN ret.input : ret.input[i].completedAt # None
    /\ \E i \in DOMAIN ret.input : ret.input[i].completedAt = None

----------------------------------------------------------------------------
(* Properties of the completion queries *)

\* C19: getTasksCompletedInRange(tasks, start, end) returns exactly the tasks
\* with status completed and a completedAt with start <= completedAt <= end,
\* both ends inclusive; getTasksCompletedToday(tasks, now) equals that range
\* query for the first and the last millisecond of the local day holding now.
C19_CompletedInRangeInclusive ==
    /\ ret.op = "getTasksCompletedInRange" =>
          ret.out = SelectSeq(ret.input, LAMBDA t :
                        /\ t.status = "completed"
                        /\ t.completedAt # None
                        /\ \E c \in CompletionTimes :
                              /\ t.completedAt = Some(c)
                              /\ ret.startDate <= c
                              /\ c <= ret.endDate)
    /\ ret.op = "getTasksCompletedToday" =>
          LET now == ret.startDate
              day == CHOOSE d \in 0..31 : d * DayMs <= now /\ now < (d + 1) * DayMs
          IN  ret.out = getTasksCompletedInRange(ret.input, day * DayMs,
                                                 (day + 1) * DayMs - 1)

\* A range query that returned a task completed exactly at its start and one
\* completed exactly at its end.
C19_Witness ==
    /\ ret.op = "getTasksCompletedInRange"
    /\ ret.startDate < ret.endDate
    /\ Len(ret.out) = MaxTasks
    /\ \E i \in DOMAIN ret.out : ret.out[i].completedAt = Some(ret.startDate)
    /\ \E i \in DOMAIN ret.out : ret.out[i].completedAt = Some(ret.endDate)

----------------------------------------------------------------------------
(* Properties of the time remaining *)

\* C20: getTimeRemaining(task, now) is dueEnd - now in milliseconds, negative
\* after the deadline and zero at it; getTimeRemainingFormatted returns
\* totalMinutes = floor(|remaining| / 60000), hours = floor(totalMinutes / 60)
\* and minutes = totalMinutes mod 60, so that 0 <= minutes < 60 and
\* hours * 60 + minutes = totalMinutes, and isOverdue exactly when remaining < 0.
C20_TimeRemaining ==
    /\ ret.op = "getTimeRemaining" =>
          /\ ret.out # NaN
          /\ ret.input.dueEnd = ret.now + ret.out
    /\ ret.op = "getTimeRemainingFormatted" =>
          LET f == ret.out IN
          /\ f.totalMinutes # NaN /\ f.hours # NaN /\ f.minutes # NaN
          /\ f.minutes >= 0 /\ f.minutes < 60
          /\ f.hours * 60 + f.minutes = f.totalMinutes
          /\ f.totalMinutes * MinuteMs <=
                (IF f.isOverdue THEN ret.now - ret.input.dueEnd
                 ELSE ret.input.dueEnd - ret.now)
          /\ (IF f.isOverdue THEN ret.now - ret.input.dueEnd
              ELSE ret.input.dueEnd - ret.now) < (f.totalMinutes + 1) * MinuteMs
          /\ f.isOverdue <=> (ret.input.dueEnd - ret.now < 0)

\* The formatted remainder of a task with a valid deadline, 1 h 1 min
\* 59.999 s after it.
C20_ValidRemaining ==
    /\ ret.op = "getTimeRemainingFormatted"
    /\ ret.input.dueEnd # NaN
    /\ ret.out = [hours |-> 1, minutes |-> 1, isOverdue |-> TRUE, totalMinutes |-> 61]

----------------------------------------------------------------------------
(* Properties of concurrent completion *)

\* C21: when two callers each read the same stored collection holding a
\* completable task, each complete it by id on their own snapshot and each
\* write their result back, both completions succeed and the stored task
\* carries the completedAt and completedBy of the caller that wrote last:
\* nothing rejects the second write.
C21_LastWriterWins ==
    (/\ \A c \in Callers : callers[c].pc = "written"
     /\ callers[1].kind = callers[2].kind
     /\ callers[1].snapshot = callers[2].snapshot
     /\ callers[1].taskId = callers[2].taskId
     /\ \A c \in Callers :
           LET found == findTaskById(callers[c].snapshot, callers[c].taskId) IN
           found # None /\ canCompleteTask(found[1], callers[c].now))
    =>
    LET last == callers[ret.caller]
        stored == IF last.kind = "collection" THEN store ELSE lsTasks
        kept == findTaskById(stored, last.taskId)
    IN  /\ ret.op = "write"
        /\ \A c \in Callers : callers[c].result.success
        /\ kept # None
        /\ kept[1].status = "completed"
        /\ kept[1].completedAt = Some(last.now)
        /\ kept[1].completedBy = CallerName(ret.caller)
        /\ kept = last.result.task

\* Both callers completed the same task over the same snapshot at different
\* times through the guarded helper; caller 2 wrote first, caller 1 last.
C21_Witness ==
    /\ \A c \in Callers : callers[c].pc = "written" /\ callers[c].kind = "collection"
    /\ callers[1].snapshot = callers[2].snapshot
    /\ callers[1].taskId = callers[2].taskId
    /\ callers[1].now # callers[2].now
    /\ \A c \in Callers : callers[c].result.success
    /\ ret = [op |-> "write", caller |-> 1]
    /\ findTaskById(store, callers[1].taskId)[1].completedBy = Some("Nurse A")

----------------------------------------------------------------------------
(* Properties of the stored tasks *)

\* C22: after any sequence of TaskStore operations starting from generator
\* output, every stored task with status completed has completedAt set, and
\* that completedAt is not earlier than the task's dueStart.
C22_CompletedHasCompletedAt ==
    \A i \in DOMAIN store :
        store[i].status = "completed" =>
            /\ store[i].completedAt # None
            /\ ~DateLt(store[i].completedAt[1], store[i].dueStart)

\* A store restored from its exported text that holds a task completed at
\* the instant its window opened, next to a task still pending.
C22_Witness ==
    /\ ret.op = "TaskStore.importFromJson"
    /\ ~ret.threw
    /\ \E i \in DOMAIN store :
          /\ store[i].status = "completed"
          /\ store[i].completedAt = Some(store[i].dueStart)
    /\ \E i \in DOMAIN store : store[i].status = "pending"

----------------------------------------------------------------------------
(* Properties of the unguarded status writers *)

\* C23: no exported task-mutation operation moves a task out of completed:
\* updateTask and the dashboard's updateTaskStatus, applied to a completed
\* task with a requested status of pending, overdue or upcoming, leave its
\* status completed.
C23_CompletedIsTerminal ==
    [][/\ (ret'.op = "updateTask" /\ task.status = "completed") =>
              task'.status = "completed"
       /\ ret'.op = "Dashboard.updateTaskStatus" =>
              \A i \in DOMAIN lsTasks :
                  lsTasks[i].status = "completed" => lsTasks'[i].status = "completed"]_vars

\* What the two writers do: the requested status is stored whatever the
\* status was before, and a completion that was recorded stays on the task.
C23_RequestedStatusStored ==
    [][/\ (ret'.op = "updateTask" /\ "status" \in DOMAIN ret'.updates) =>
              /\ task'.status = ret'.updates.status
              /\ ret'.updates.status # "completed" => task'.completedAt = task.completedAt
       /\ (ret'.op = "Dashboard.updateTaskStatus" /\ ret'.returned # None) =>
              /\ ret'.returned[1].status = ret'.status
              /\ findTaskById(lsTasks', ret'.taskId) = ret'.returned]_vars

\* A stored task that reads pending again while still carrying the
\* completedAt of its completion.
C23_Witness ==
    /\ ret.op = "Dashboard.updateTaskStatus"
    /\ ret.returned # None
    /\ ret.returned[1].status = "pending"
    /\ ret.returned[1].completedAt # None

----------------------------------------------------------------------------
(* Properties of the seeded localStorage *)

SeedingOps == {"patientService.initializeDatabase", "patientService.getAllTasks",
               "patientService.getAllPatients"}

----------------------------------------------------------------------------
(* Properties of the transition table *)

\* C25: isValidTransition(from, to) is true exactly for upcoming->pending,
\* upcoming->overdue, pending->completed, pending->overdue and
\* overdue->completed; and for every task and now, completeTask succeeds and
\* canCompleteTask is true exactly when
\* isValidTransition(calculateTaskStatus(task, now), 'completed') is true.
C25_TableAgreesWithGuard ==
    /\ ret.op = "isValidTransition" =>
          (ret.result <=>
              <<ret.fromStatus, ret.toStatus>> \in
                  {<<"upcoming", "pending">>, <<"upcoming", "overdue">>,
                   <<"pending", "completed">>, <<"pending", "overdue">>,
                   <<"overdue", "completed">>})
    /\ ret.op = "canCompleteTask" =>
          LET allowed == isValidTransition(calculateTaskStatus(ret.input, ret.now),
                                           "completed")
          IN  /\ ret.result <=> allowed
              /\ ret.completion.success <=> allowed

\* An overdue task: the table allows overdue->completed, the guard is true
\* and the completion succeeds.
C25_Witness ==
    /\ ret.op = "canCompleteTask"
    /\ calculateTaskStatus(ret.input, ret.now) = "overdue"
    /\ ret.result
    /\ ret.completion.success

----------------------------------------------------------------------------
(* Properties of the status shown over time *)

\* C26: with a clock that only moves forward and tasks changed only through
\* the guarded complete and add-notes operations, the status a task shows on
\* successive reads changes only along upcoming->pending, upcoming->overdue,
\* pending->overdue, pending->completed or overdue->completed: it never
\* moves backwards and never goes from upcoming directly to completed.
C26_ShownStatusFollowsTable ==
    [][\A i \in DOMAIN tasks :
          \/ tasks'[i].status = tasks[i].status
          \/ isValidTransition(tasks[i].status, tasks'[i].status)]_vars

\* What does hold: from one step to the next (one clock advance or one
\* guarded operation) the status derived from the stored task and the clock
\* moves only along the table.
C26_DerivedStatusFollowsTable ==
    [][\A i \in DOMAIN store :
          LET before == calculateTaskStatus(store[i], clock)
              after == calculateTaskStatus(store'[i], clock')
          IN  before = after \/ isValidTransition(before, after)]_vars

\* The reader was shown overdue by getAllTasks and is now shown the stored
\* pending by getTaskById, after the window has closed.
C26_Witness ==
    /\ ret.op = "TaskStore.getTaskById"
    /\ \E i \in DOMAIN tasks :
          /\ tasks[i].status = "pending"
          /\ calculateTaskStatus(store[i], clock) = "overdue"

----------------------------------------------------------------------------
(* Properties of a task under an advancing clock *)

\* C27: for every task that is not completed, if the clock advances without
\* bound then canCompleteTask eventually becomes true, and once it is true
\* it stays true at every later time until the task is completed:
\* completion is never permanently blocked.
C27_EventuallyCompletable ==
    /\ (task.status # "completed") ~> canCompleteTask(task, clock)
    /\ [][(canCompleteTask(task, clock) /\ task'.status # "completed")
              => canCompleteTask(task', clock')]_vars

\* A completion was refused before the window opened; the clock has advanced
\* since, the task is still not completed and can now be completed.
C27_Witness ==
    /\ ret.op = "completeTask"
    /\ ~ret.success
    /\ ret.now < clock
    /\ task.status # "completed"
    /\ task.dueStart # NaN
    /\ canCompleteTask(task, clock)

----------------------------------------------------------------------------
(* Properties of the overdue flags *)

\* C28: for every task that is not completed and has dueStart <= dueEnd, and
\* for every now, the isOverdue flag of getTimeRemainingFormatted(task, now)
\* equals isTaskOverdue(task, now); in particular both are false at
\* now == dueEnd.
C28_OverdueFlagsAgree ==
    (/\ ret.op = "isTaskOverdue"
     /\ ret.input.status # "completed"
     /\ DateLe(ret.input.dueStart, ret.input.dueEnd))
    =>
    /\ ret.formatted.isOverdue = ret.overdue
    /\ ret.now = ret.input.dueEnd => (~ret.overdue /\ ~ret.formatted.isOverdue)

\* Both flags read at the deadline itself of a task that is not completed.
C28_Witness ==
    /\ ret.op = "isTaskOverdue"
    /\ ret.input.status # "completed"
    /\ DateLe(ret.input.dueStart, ret.input.dueEnd)
    /\ ret.now = ret.input.dueEnd
    /\ ~ret.overdue
    /\ ret.formatted.totalMinutes = 0

----------------------------------------------------------------------------
(* Properties of operations on different tasks *)

\* The ids of the array are pairwise different.
UniqueIds(ts) == \A i, j \in DOMAIN ts : ts[i].id = ts[j].id => i = j

\* C29: for two distinct task ids a and b of a collection with unique ids,
\* completing a and adding notes to b, each applied to the result of the
\* other, yield the same final collection in either order, and the result
\* each operation reports does not depend on whether the other ran first.
C29_CompleteAndNotesCommute ==
    (/\ \A c \in Callers : callers[c].pc = "done"
     /\ UniqueIds(tasks)
     /\ callers[1].a # callers[1].b
     /\ findTaskById(tasks, callers[1].a) # None
     /\ findTaskById(tasks, callers[1].b) # None)
    =>
    /\ callers[1].tasks = callers[2].tasks
    /\ callers[1].first = callers[2].second
    /\ callers[1].second = callers[2].first

\* Both orders have run on an array of two tasks; the completion of a
\* succeeded and b carries the notes.
C29_Witness ==
    /\ \A c \in Callers : callers[c].pc = "done"
    /\ UniqueIds(tasks)
    /\ Len(tasks) = 2
    /\ callers[1].a # callers[1].b
    /\ findTaskById(tasks, callers[1].a) # None
    /\ findTaskById(tasks, callers[1].b) # None
    /\ callers[1].first.success
    /\ callers[2].second.success
    /\ findTaskById(callers[2].tasks, callers[2].a)[1].status = "completed"
    /\ findTaskById(tasks, callers[2].b)[1].notes = None
    /\ findTaskById(callers[2].tasks, callers[2].b)[1].notes = Some("note 1")

----------------------------------------------------------------------------
(* Properties of the task cards *)

\* C30: in a single UI session with a forward-moving clock, where completion
\* requests come only from the TaskCard button (rendered only when the
\* displayed status is pending or overdue) and every completion handler
\* reloads the task list before the next click, patientService.completeTask
\* is never invoked for a task whose derived status at that moment is
\* upcoming or completed.
C30_ButtonNeverCompletesUpcomingOrCompleted ==
    ret.op = "patientService.completeTask" =>
        ret.derived \notin {"upcoming", "completed"}

\* The same holds whenever the seeded tasks have pairwise different ids.
C30_UniqueIdsButtonSafe ==
    (ret.op = "patientService.completeTask" /\ UniqueIds(lsTasks)) =>
        ret.derived \in {"pending", "overdue"}

\* Two cards carry the same id: the second click overwrote the completion
\* the first click had stored, and the second card's task is still open.
C30_Witness ==
    /\ ret.op = "patientService.completeTask"
    /\ ret.derived = "completed"
    /\ \E i \in DOMAIN lsTasks :
          /\ i # ret.card
          /\ lsTasks[i].id = ret.taskId
          /\ lsTasks[i].status = "completed"
          /\ lsTasks[ret.card].status # "completed"
          /\ isCompletable(tasks[ret.card])

====
